---- MODULE Spec2Model ----
(***************************************************************************)
(* Event plane of the realtime subscription gateway: sequence allocation,  *)
(* durable append and store publish (RedisTopicManager.addEvent), the      *)
(* per-replica distributor and the per-subscriber bounded queues           *)
(* (EventDistributor, addEventToSubscriberQueue), the subscription stream  *)
(* (Subscription.topicEvents.subscribe) over the in-process bus, and the   *)
(* inactive-subscriber reaper.                                             *)
(*                                                                         *)
(* Strings that are built and parsed (store keys, channels) are sequences  *)
(* of tokens, ":" being a token of its own, so that concatenation and      *)
(* parsing are computed and not assumed.                                   *)
(*                                                                         *)
(* Every replica sends its store commands over one connection              *)
(* (getRedis() / redisConnection.getClient()), so the store executes the   *)
(* commands of one replica in the order they were issued, and a task       *)
(* issues its next command when the reply to its previous one arrives.     *)
(* cmdq[r] is that pipeline: the tasks of replica r that have a command    *)
(* outstanding, in issue order.  Commands of different replicas interleave *)
(* freely.                                                                 *)
(***************************************************************************)
EXTENDS Integers, Sequences, FiniteSets, TLC

\* ---------------------------------------------------------------- bounds
MaxPublishes == 2
MaxStreams == 2
MaxReaperRuns == 1
MaxRemotePublishes == 5
\* messages a replica's distributor has received or is about to and has not
\* finished distributing, while further envelopes arrive
MaxInFlight == 2
\* config.topic.maxSubscriberQueueSize (MAX_SUBSCRIBER_QUEUE_SIZE, default
\* 100), checked at a small configured value
maxSubscriberQueueSize == 3
\* Date.now() when the gateway process starts
EpochMs == 10000
\* the clock is observed every TickMs milliseconds, for MaxElapsedMs
TickMs == 500
CbTickMs == 30000
CbMaxElapsedMs == 90000
MaxCbInFlight == 4
MaxPairs == 2
\* getSubscriberEvents calls of a run
MaxDrains == 2
MaxElapsedMs == 3000
\* checkRateLimit calls of a run
MaxRequests == 5
\* verifyToken and checkTopicAccess calls of a run
MaxAuthCalls == 3
\* publishEvent calls of a run that go through the admission checks
MaxAdmissions == 3
\* direct checkInputRateLimit calls of a run
MaxInputCalls == 5
\* the limits of the publish path (50 inputs, 100 user actions and 1000
\* topic events per minute), checked at small values
InputMaxRequests == 2
UserLimit == 2
TopicLimit == 3
\* the windowMs argument of checkRateLimit (60000 in its callers), checked
\* at a window of two seconds
WindowMs == 2000
\* the limit argument of checkRateLimit (100, 1000 and 10000 in its
\* callers), checked at small limits
StoreLimit == 2
FallbackBaseLimit == 20

\* ------------------------------------------------------ program constants
StreamMaxLen == 1000
cacheTtlSeconds == 30
FallbackCleanupAgeMs == 300000
keyPrefix == <<"rt">>
durabilityEnabled == TRUE

Replicas == {"R1", "R2"}
Tenants == {<<"t1">>, <<"t2">>}
TopicX == <<"doc", ":", "123">>
EventTypes == {"op", "cursor"}
\* the authenticated principals: userId and tenantId
Principals == {[userId |-> "u1", tenantId |-> <<"t1">>],
               [userId |-> "u2", tenantId |-> <<"t1">>],
               [userId |-> "u3", tenantId |-> <<"t2">>]}

\* ------------------------------------------------------------- sequences
RECURSIVE IndexOf(_, _, _)
\* String.prototype.indexOf on a token sequence: first position >= i of
\* tok, counted from 1; 0 when absent
IndexOf(s, tok, i) ==
  IF i > Len(s) THEN 0
  ELSE IF s[i] = tok THEN i
  ELSE IndexOf(s, tok, i + 1)

RECURSIVE SelectSeqBy(_, _)
SelectSeqBy(s, keep) ==
  IF s = <<>> THEN <<>>
  ELSE (IF keep[Head(s)] THEN <<Head(s)>> ELSE <<>>) \o SelectSeqBy(Tail(s), keep)

Range(s) == {s[i] : i \in 1..Len(s)}

\* Array.prototype.slice(from) / slice(0, to) with 0-based indices
SliceFrom(s, from) == IF from >= Len(s) THEN <<>> ELSE SubSeq(s, from + 1, Len(s))
SliceTo(s, to) == SubSeq(s, 1, IF to > Len(s) THEN Len(s) ELSE to)

\* a finite set of numbers as an ascending sequence
RECURSIVE SortedSeq(_)
SortedSeq(S) ==
  IF S = {} THEN <<>>
  ELSE LET m == CHOOSE x \in S : \A y \in S : x <= y
       IN <<m>> \o SortedSeq(S \ {m})

\* ------------------------------------------------------------ store keys
seqKey(tenantId, topicId) == keyPrefix \o <<":", "seq", ":">> \o tenantId \o <<":">> \o topicId
streamKey(tenantId, topicId) == keyPrefix \o <<":", "stream", ":">> \o tenantId \o <<":">> \o topicId
topicMetaKey(tenantId, topicId) ==
  keyPrefix \o <<":", "topic", ":">> \o tenantId \o <<":">> \o topicId \o <<":", "meta">>
pubChannel(tenantId, topicId) == keyPrefix \o <<":", "pub", ":">> \o tenantId \o <<":">> \o topicId
subscribersKey(tenantId, topicId) ==
  keyPrefix \o <<":", "topic", ":">> \o tenantId \o <<":">> \o topicId \o <<":", "subscribers">>
subscriberMetaKey(tenantId, subscriberId) ==
  keyPrefix \o <<":", "subscriber", ":">> \o tenantId \o <<":">> \o <<subscriberId>> \o <<":", "meta">>
queueKey(tenantId, topicId, subscriberId) ==
  keyPrefix \o <<":", "sub", ":">> \o tenantId \o <<":">> \o <<subscriberId>>
            \o <<":", "topic", ":">> \o topicId \o <<":", "queue">>

\* a bus channel named by the topic alone
channelForTopic_topicOnly(tenantId, topicId) == <<"TOPIC_EVENTS", ":">> \o topicId
\* the bus channel of a {tenant, topic}
channelForTopic(tenantId, topicId) == <<"TOPIC_EVENTS", ":">> \o tenantId \o <<":">> \o topicId

\* the pSubscribe callback's parse of the channel name
ChannelRemainder(channel) == SubSeq(channel, Len(keyPrefix) + 4, Len(channel))
ParseTenant(channel) ==
  LET remainder == ChannelRemainder(channel)
      sepIdx == IndexOf(remainder, ":", 1)
  IN IF sepIdx >= 1 THEN SubSeq(remainder, 1, sepIdx - 1) ELSE <<"default">>
ParseTopic(channel) ==
  LET remainder == ChannelRemainder(channel)
      sepIdx == IndexOf(remainder, ":", 1)
  IN IF sepIdx >= 1 THEN SubSeq(remainder, sepIdx + 1, Len(remainder)) ELSE remainder

\* uuidv4() of the n-th subscription
SubscriberId(n) == "sub" \o ToString(n)

\* ----------------------------------------------------------------- state
VARIABLES
  live,          \* the replicas that are running (redis connected, distributor listening)
  counters,      \* store: integer keys (sequence counters)
  streams,       \* store: streams, key -> sequence of entries
  hashes,        \* store: hashes, key -> record
  sets,          \* store: sets, key -> set of members
  lists,         \* store: lists, key -> sequence (subscriber queues)
  chan,          \* store pub/sub: messages in flight to each replica's pattern subscription
  cmdq,          \* per replica: tasks with a store command outstanding, in issue order
  pubs,          \* publishEvent calls: p -> [pc, replica, event], and as history the
                 \* streams that were in TAIL when the call began
  hnds,          \* distributor callbacks: <<replica, p>> -> [pc, tenantId, topicId, event, pending]
  enqs,          \* addEventToSubscriberQueue calls: <<replica, p, subscriberId>> -> record
  rrIndex,       \* per replica: roundRobinIndexByTopic
  strms,         \* subscription streams: s -> record
  reapers,       \* per replica: the running cleanupInactiveSubscribers call
  aged,          \* subscriber meta keys whose lastSeen is more than slowClientThresholdMs old
  emitted,       \* history: envelopes in the order the store published them
  handled,       \* history: the distributor callbacks that returned, and whether they
                 \* published on the bus
  pushed,        \* history: per queue key, the envelopes in the order they were appended,
                 \* each with the queue length its enqueue had read
  metrics,       \* per replica: the counters of metricsCollector (events)
  trimmed,       \* history: per queue key, the envelopes lTrim removed, in removal order
  drains,        \* the getSubscriberEvents calls: each with its position, its queue and
                 \* the envelopes it read
  now,           \* Date.now() of the gateway process, in milliseconds
  zsets,         \* store sorted sets of the rate-limit script: key -> set of [member, score]
  fallbackLimits,\* RateLimiter.fallbackLimits: key -> [requests, resetTime]
  rlLog,         \* history: the RateLimitResult of every checkRateLimit call, with its
                 \* key, mode and the Date.now() of the call
  config,        \* the configuration read from the environment at startup
  fbAuth,        \* the firebaseAuth singleton: "unloaded", "threw" or [isDisabled, auth]
  aclCache,      \* store strings under the acl prefix: key -> "1" or "0"
  topicDocs,     \* the ACL source's topics collection: topicId -> [isPublic, allowedUsers]
  authLog,       \* history: the verifyToken and checkTopicAccess calls with their results
  recentInputs,  \* inputSanitizer's recentInputs: identifier -> timestamps
  admLog,        \* history: per publishEvent call, the checks it evaluated, the check
                 \* that failed and the quotas it consumed
  inputLog,      \* history: the checkInputRateLimit calls with their answers
  breakers,      \* the global circuit breakers: name -> [failures, lastFailureTime, state]
  cbCalls,       \* per breaker: the protected operations that are awaited
  keyLog,        \* history: the {tenantId, topicId} pairs the publish and subscribe paths
                 \* accepted, with the keys and channels they used
  cbLog          \* history, per breaker: the times of its latest failures, its latest
                 \* opening, the calls let through since it turned HALF_OPEN, its last call

storeVars == <<live, counters, streams, hashes, sets, lists>>
planeVars == <<live, counters, streams, hashes, sets, lists, chan, cmdq, pubs, hnds, enqs,
               rrIndex, strms, reapers, aged, emitted, handled, pushed, metrics, trimmed,
               drains>>
limiterVars == <<now, zsets, fallbackLimits, rlLog>>
authVars == <<config, fbAuth, aclCache, topicDocs, authLog>>
admitVars == <<recentInputs, admLog, inputLog>>
breakerVars == <<breakers, cbCalls, cbLog>>
keyVars == <<keyLog>>
edgeVars == <<limiterVars, authVars, admitVars, breakerVars, keyVars>>
notLimiter == <<planeVars, authVars, admitVars, breakerVars, keyVars>>
notAuth == <<planeVars, limiterVars, admitVars, breakerVars, keyVars>>
vars == <<planeVars, edgeVars>>

\* a key that does not exist reads as the empty value of its type
Get(store, key, default) == IF key \in DOMAIN store THEN store[key] ELSE default
Put(store, key, value) == [k \in DOMAIN store \cup {key} |-> IF k = key THEN value ELSE store[k]]
Del(store, key) == [k \in DOMAIN store \ {key} |-> store[k]]

\* the connection of replica r: task id replies, and reissues iff more
Issue(r, id) == cmdq' = [cmdq EXCEPT ![r] = Append(@, id)]
Reply(r, id, more) ==
  cmdq' = [cmdq EXCEPT ![r] = Tail(@) \o (IF more THEN <<id>> ELSE <<>>)]
AtHead(r, id) == cmdq[r] # <<>> /\ Head(cmdq[r]) = id

\* ------------------------------------------------ in-process broadcast bus
\* graphqlPubSub.publish on replica r: every stream of r that is iterating
\* the channel receives the value
BusPublish(ss, r, channel, values) ==
  [s \in DOMAIN ss |->
     IF ss[s].replica = r /\ ss[s].state = "TAIL" /\ ss[s].channel = channel
     THEN [ss[s] EXCEPT !.received = @ \o values]
     ELSE ss[s]]


\* ------------------------------------------------------------------ Init
LimiterInit ==
  /\ now = EpochMs
  /\ zsets = <<>>
  /\ fallbackLimits = <<>>
  /\ rlLog = <<>>

\* the process starts with one of the configurations cfgs and the ACL
\* source holding one of the collections docs
AuthInit(cfgs, docs) ==
  /\ config \in cfgs
  /\ fbAuth = [state |-> "unloaded", isDisabled |-> FALSE, auth |-> FALSE]
  /\ aclCache = <<>>
  /\ topicDocs \in docs
  /\ authLog = <<>>

PlaneInit ==
  /\ live \in SUBSET Replicas
  /\ counters = <<>>
  /\ streams = <<>>
  /\ hashes = <<>>
  /\ sets = <<>>
  /\ lists = <<>>
  /\ chan = [r \in Replicas |-> <<>>]
  /\ cmdq = [r \in Replicas |-> <<>>]
  /\ pubs = <<>>
  /\ hnds = <<>>
  /\ enqs = <<>>
  /\ rrIndex = [r \in Replicas |-> <<>>]
  /\ strms = <<>>
  /\ reapers = [r \in Replicas |-> [pc |-> "idle", runs |-> 0]]
  /\ aged = {}
  /\ emitted = <<>>
  /\ handled = {}
  /\ pushed = <<>>
  /\ metrics = [r \in Replicas |-> [published |-> 0, delivered |-> 0, dropped |-> 0]]
  /\ trimmed = <<>>
  /\ drains = <<>>

TestConfig == [nodeEnv |-> "test", firebaseAuthDisabled |-> TRUE, credentials |-> "placeholder"]
AdmitInit ==
  /\ recentInputs = <<>>
  /\ admLog = <<>>
  /\ inputLog = <<>>
\* new CircuitBreaker(failureThreshold, recoveryTimeoutMs), halfOpenMaxAttempts by default
redisCircuitBreaker ==
  [failureThreshold |-> 3, recoveryTimeoutMs |-> 30000, halfOpenMaxAttempts |-> 3]
firebaseCircuitBreaker ==
  [failureThreshold |-> 5, recoveryTimeoutMs |-> 60000, halfOpenMaxAttempts |-> 3]
Breakers == {"redis", "firebase"}
BreakerOf(b) == IF b = "redis" THEN redisCircuitBreaker ELSE firebaseCircuitBreaker
BreakerInit ==
  /\ breakers = [b \in Breakers |-> [failures |-> 0, lastFailureTime |-> 0, state |-> "CLOSED"]]
  /\ cbCalls = [b \in Breakers |-> 0]
  /\ cbLog = [b \in Breakers |->
               [failTimes |-> <<>>,
                opened |-> [at |-> -1, from |-> "none", recent |-> 0],
                probes |-> 0,
                lastCall |-> [ev |-> "none", at |-> -1, sinceOpened |-> -1]]]
EdgeInit ==
  LimiterInit /\ AuthInit({TestConfig}, {<<>>}) /\ AdmitInit /\ BreakerInit /\ keyLog = {}

Init == EdgeInit /\ PlaneInit

\* ------------------------------------------- Mutation.publishEvent, addEvent
\* a publishEvent call of a principal that passed validation, rate limits
\* and the access check; it builds the envelope and enters addEvent, whose
\* first command is incr.  seq is a placeholder (Date.now()) until incr.
StartPublish(r, principal, type) ==
  /\ r \in live
  /\ Len(pubs) < MaxPublishes
  /\ LET p == Len(pubs) + 1
         event == [id |-> p, topicId |-> TopicX, type |-> type, seq |-> 0,
                   tenantId |-> principal.tenantId, senderId |-> principal.userId]
     IN /\ pubs' = Append(pubs, [pc |-> "incr", replica |-> r, event |-> event,
                                  tailing |-> {s \in DOMAIN strms : strms[s].state = "TAIL"}])
        /\ Issue(r, <<"pub", p, "">>)
  /\ UNCHANGED <<edgeVars, drains, storeVars, chan, hnds, enqs, rrIndex, strms, reapers, aged, emitted, handled, pushed,
                 metrics, trimmed>>

\* a counter read that is not an increment
incr_reads(n) == n
\* INCR: the new value of the counter, which is also the reply
incr(n) == n + 1

PubStep(p, pcNow, pcNext) ==
  /\ p \in DOMAIN pubs
  /\ pubs[p].pc = pcNow
  /\ AtHead(pubs[p].replica, <<"pub", p, "">>)
  /\ Reply(pubs[p].replica, <<"pub", p, "">>, pcNext # "done")

PubIncr(p) ==
  /\ PubStep(p, "incr", "xAdd")
  /\ LET e == pubs[p].event
         key == seqKey(e.tenantId, e.topicId)
         newSeq == incr(Get(counters, key, 0))
     IN /\ counters' = Put(counters, key, newSeq)
        /\ pubs' = [pubs EXCEPT ![p].pc = "xAdd", ![p].event.seq = newSeq]
  /\ UNCHANGED <<edgeVars, drains, live, streams, hashes, sets, lists, chan, hnds, enqs, rrIndex, strms,
                 reapers, aged, emitted, handled, pushed, metrics, trimmed>>

\* an entry that does not carry the assigned seq
StoredEventData_unsequenced(e) == [id |-> e.id, type |-> e.type, seq |-> 0, userId |-> e.senderId]
\* the fields addEvent stores in the stream entry
StoredEventData(e) == [id |-> e.id, type |-> e.type, seq |-> e.seq, userId |-> e.senderId]

PubXAdd(p) ==
  /\ PubStep(p, "xAdd", "hSet")
  /\ LET e == pubs[p].event
         key == streamKey(e.tenantId, e.topicId)
     IN streams' = Put(streams, key, Append(Get(streams, key, <<>>), StoredEventData(e)))
  /\ pubs' = [pubs EXCEPT ![p].pc = "hSet"]
  /\ UNCHANGED <<edgeVars, drains, live, counters, hashes, sets, lists, chan, hnds, enqs, rrIndex, strms,
                 reapers, aged, emitted, handled, pushed, metrics, trimmed>>

PubHSet(p) ==
  /\ PubStep(p, "hSet", "publish")
  /\ LET e == pubs[p].event
     IN hashes' = Put(hashes, topicMetaKey(e.tenantId, e.topicId), [lastEventId |-> e.seq])
  /\ pubs' = [pubs EXCEPT ![p].pc = "publish"]
  /\ UNCHANGED <<edgeVars, drains, live, counters, streams, sets, lists, chan, hnds, enqs, rrIndex, strms,
                 reapers, aged, emitted, handled, pushed, metrics, trimmed>>

\* PUBLISH: the store hands the message to the pattern subscription of every
\* replica, in publish order
PubPublish(p) ==
  /\ PubStep(p, "publish", "xTrim")
  /\ LET e == pubs[p].event
         msg == [channel |-> pubChannel(e.tenantId, e.topicId), message |-> e]
     IN /\ chan' = [r \in Replicas |-> IF r \in live THEN Append(chan[r], msg) ELSE chan[r]]
        /\ emitted' = Append(emitted, e)
  /\ pubs' = [pubs EXCEPT ![p].pc = "xTrim"]
  /\ UNCHANGED <<edgeVars, drains, storeVars, hnds, enqs, rrIndex, strms, reapers, aged, handled, pushed,
                 metrics, trimmed>>

\* XTRIM MAXLEN n: keep the last n entries
XTrim(entries, n) == IF Len(entries) > n THEN SubSeq(entries, Len(entries) - n + 1, Len(entries)) ELSE entries

\* the last command of addEvent; its reply returns to publishEvent, which
\* emits the envelope on the bus of its own replica and reports success
PubXTrim(p) ==
  /\ PubStep(p, "xTrim", "done")
  /\ LET e == pubs[p].event
         key == streamKey(e.tenantId, e.topicId)
     IN /\ streams' = Put(streams, key, XTrim(Get(streams, key, <<>>), StreamMaxLen))
        /\ strms' = BusPublish(strms, pubs[p].replica, channelForTopic(e.tenantId, e.topicId), <<e>>)
  /\ metrics' = [metrics EXCEPT ![pubs[p].replica].published = @ + 1,
                                ![pubs[p].replica].delivered = @ + 1]
  /\ pubs' = [pubs EXCEPT ![p].pc = "done"]
  /\ UNCHANGED <<edgeVars, drains, live, counters, hashes, sets, lists, chan, hnds, enqs, rrIndex,
                 reapers, aged, emitted, handled, pushed, trimmed>>


\* the messages replica r has not finished distributing
InFlight(r) == Len(chan[r]) + Cardinality({k \in DOMAIN hnds : k[1] = r})

\* a gateway process outside the modelled replicas runs publishEvent through
\* addEvent with no command of the modelled replicas in between
RemotePublish(principal, type, max) ==
  /\ Len(pubs) < max
  /\ \A r \in live : InFlight(r) < MaxInFlight
  /\ LET p == Len(pubs) + 1
         skey == seqKey(principal.tenantId, TopicX)
         xkey == streamKey(principal.tenantId, TopicX)
         newSeq == incr(Get(counters, skey, 0))
         event == [id |-> p, topicId |-> TopicX, type |-> type, seq |-> newSeq,
                   tenantId |-> principal.tenantId, senderId |-> principal.userId]
         msg == [channel |-> pubChannel(event.tenantId, event.topicId), message |-> event]
     IN /\ counters' = Put(counters, skey, newSeq)
        /\ streams' = Put(streams, xkey,
                          XTrim(Append(Get(streams, xkey, <<>>), StoredEventData(event)), StreamMaxLen))
        /\ hashes' = Put(hashes, topicMetaKey(event.tenantId, event.topicId), [lastEventId |-> newSeq])
        /\ chan' = [r \in Replicas |-> IF r \in live THEN Append(chan[r], msg) ELSE chan[r]]
        /\ emitted' = Append(emitted, event)
        /\ pubs' = Append(pubs, [pc |-> "done", replica |-> "remote", event |-> event,
                                  tailing |-> {s \in DOMAIN strms : strms[s].state = "TAIL"}])
  /\ UNCHANGED <<edgeVars, drains, live, sets, lists, cmdq, hnds, enqs, rrIndex, strms, reapers, aged, handled, pushed,
                 metrics, trimmed>>

\* ------------------------------------------------------- EventDistributor
\* SMEMBERS as the client's array: ascending subscriber id
SMembers(key) ==
  LET members == Get(sets, key, {})
      nums == {n \in 1..MaxStreams : SubscriberId(n) \in members}
      sorted == SortedSeq(nums)
  IN [i \in 1..Len(sorted) |-> SubscriberId(sorted[i])]

\* the rotated view of the subscriber ids and the next start index
\* a rotation that does not wrap around
Rotated_noWrap(subscriberIds, start) == SliceFrom(subscriberIds, start)
Rotated(subscriberIds, start) == SliceFrom(subscriberIds, start) \o SliceTo(subscriberIds, start)
NextStart(subscriberIds, start) == (start + 1) % Len(subscriberIds)

\* the pattern-subscription callback of replica r takes the next message:
\* it parses the envelope and the channel and enters
\* distributeEventToSubscribers, whose first command is sMembers
Receive(r) ==
  /\ chan[r] # <<>>
  /\ LET msg == Head(chan[r])
         event == msg.message
         h == <<r, event.id>>
     IN /\ hnds' = Put(hnds, h, [pc |-> "sMembers", tenantId |-> ParseTenant(msg.channel),
                                 topicId |-> ParseTopic(msg.channel), event |-> event,
                                 pending |-> {}])
        /\ Issue(r, <<"h", event.id, "">>)
  /\ chan' = [chan EXCEPT ![r] = Tail(@)]
  /\ UNCHANGED <<edgeVars, drains, storeVars, pubs, enqs, rrIndex, strms, reapers, aged, emitted, handled, pushed,
                 metrics, trimmed>>

\* an addEventToSubscriberQueue call up to its first command (lLen)
NewEnqueue(tenantId, topicId, subscriberId, event) ==
  [pc |-> "lLen", key |-> queueKey(tenantId, topicId, subscriberId), event |-> event,
   queueLength |-> 0, filtered |-> <<>>, newLength |-> 0, coalesced |-> FALSE, alone |-> TRUE]

\* the record of a distributor callback that returned
Handled(r, h, published) ==
  [replica |-> r, id |-> h.event.id, tenantId |-> h.tenantId, topicId |-> h.topicId,
   published |-> published]

\* reply of sMembers: return when there is no subscriber, else rotate the
\* start index and start one enqueue per subscriber in rotated order
HandleSMembers(r, p) ==
  /\ <<r, p>> \in DOMAIN hnds
  /\ hnds[<<r, p>>].pc = "sMembers"
  /\ AtHead(r, <<"h", p, "">>)
  /\ LET h == hnds[<<r, p>>]
         subscriberIds == SMembers(subscribersKey(h.tenantId, h.topicId))
         rrKey == h.tenantId \o <<":">> \o h.topicId
         start == Get(rrIndex[r], rrKey, 0)
         rotated == Rotated(subscriberIds, start)
     IN IF Len(subscriberIds) = 0
        THEN /\ hnds' = Del(hnds, <<r, p>>)
             /\ handled' = handled \cup {Handled(r, h, FALSE)}
             /\ cmdq' = [cmdq EXCEPT ![r] = Tail(@)]
             /\ UNCHANGED <<enqs, rrIndex>>
        ELSE /\ UNCHANGED handled
             /\ rrIndex' = [rrIndex EXCEPT ![r] = Put(@, rrKey, NextStart(subscriberIds, start))]
             /\ hnds' = [hnds EXCEPT ![<<r, p>>].pc = "settle",
                                     ![<<r, p>>].pending = Range(rotated)]
             /\ enqs' = [k \in DOMAIN enqs \cup {<<r, p, rotated[i]>> : i \in 1..Len(rotated)} |->
                           IF k \in DOMAIN enqs THEN enqs[k]
                           ELSE NewEnqueue(h.tenantId, h.topicId, k[3], h.event)]
             /\ cmdq' = [cmdq EXCEPT ![r] =
                           Tail(@) \o [i \in 1..Len(rotated) |-> <<"enq", p, rotated[i]>>]]
  /\ UNCHANGED <<edgeVars, drains, storeVars, chan, pubs, strms, reapers, aged, emitted, pushed,
                 metrics, trimmed>>

\* --------------------------------------------- addEventToSubscriberQueue
isCoalescable(event) == event.type = "cursor" \/ event.type = "presence"
\* Math.floor(maxSize * 0.75)
CoalesceThreshold(maxSize) == (maxSize * 3) \div 4
\* a filter that matches on the type alone
CoalesceKeep_anySender(it, event) == ~(it.type = event.type /\ it.senderId # event.senderId)
\* the filter of the coalescing scan: TRUE for the items that stay
CoalesceKeep(it, event) == ~(it.type = event.type /\ it.senderId = event.senderId)
Filtered(items, event) ==
  SelectSeqBy(items, [it \in Range(items) |-> CoalesceKeep(it, event)])
\* a trim that keeps one entry more
LTrim_fromBefore(items, start) ==
  IF start - 1 >= Len(items) THEN <<>> ELSE SubSeq(items, start, Len(items))
\* LTRIM key start -1
LTrim(items, start) == IF start >= Len(items) THEN <<>> ELSE SubSeq(items, start + 1, Len(items))

\* a write of task k to its queue happens between the commands of every
\* other call that is working on the same queue
DisturbKey(es, key, k) ==
  [j \in DOMAIN es |->
     IF j # k /\ es[j].key = key /\ es[j].pc # "lLen"
     THEN [es[j] EXCEPT !.alone = FALSE] ELSE es[j]]
Disturb(es, k) == DisturbKey(es, es[k].key, k)

EnqStep(r, p, sub, pcNow) ==
  /\ <<r, p, sub>> \in DOMAIN enqs
  /\ enqs[<<r, p, sub>>].pc = pcNow
  /\ AtHead(r, <<"enq", p, sub>>)

EnqLLen(r, p, sub) ==
  /\ EnqStep(r, p, sub, "lLen")
  /\ LET k == <<r, p, sub>>
         e == enqs[k]
         queueLength == Len(Get(lists, e.key, <<>>))
         coalesce == isCoalescable(e.event) /\ queueLength >= CoalesceThreshold(maxSubscriberQueueSize)
     IN enqs' = [enqs EXCEPT ![k].pc = IF coalesce THEN "lRange" ELSE "rPush",
                             ![k].queueLength = queueLength,
                             ![k].coalesced = coalesce]
  /\ Reply(r, <<"enq", p, sub>>, TRUE)
  /\ UNCHANGED <<edgeVars, drains, storeVars, chan, pubs, hnds, rrIndex, strms, reapers, aged, emitted, handled, pushed,
                 metrics, trimmed>>

EnqLRange(r, p, sub) ==
  /\ EnqStep(r, p, sub, "lRange")
  /\ LET k == <<r, p, sub>>
         e == enqs[k]
         items == Get(lists, e.key, <<>>)
         filtered == Filtered(items, e.event)
     IN enqs' = [enqs EXCEPT ![k].pc = IF Len(filtered) # Len(items) THEN "del" ELSE "rPush",
                             ![k].filtered = filtered]
  /\ Reply(r, <<"enq", p, sub>>, TRUE)
  /\ UNCHANGED <<edgeVars, drains, storeVars, chan, pubs, hnds, rrIndex, strms, reapers, aged, emitted, handled, pushed,
                 metrics, trimmed>>

EnqDel(r, p, sub) ==
  /\ EnqStep(r, p, sub, "del")
  /\ LET k == <<r, p, sub>>
         e == enqs[k]
     IN /\ lists' = Del(lists, e.key)
        /\ enqs' = [Disturb(enqs, k) EXCEPT ![k].pc = IF Len(e.filtered) > 0 THEN "rPushFiltered" ELSE "rPush"]
  /\ Reply(r, <<"enq", p, sub>>, TRUE)
  /\ UNCHANGED <<edgeVars, drains, live, counters, streams, hashes, sets, chan, pubs, hnds, rrIndex, strms,
                 reapers, aged, emitted, handled, pushed, metrics, trimmed>>

EnqRPushFiltered(r, p, sub) ==
  /\ EnqStep(r, p, sub, "rPushFiltered")
  /\ LET k == <<r, p, sub>>
         e == enqs[k]
     IN /\ lists' = Put(lists, e.key, Get(lists, e.key, <<>>) \o e.filtered)
        /\ enqs' = [Disturb(enqs, k) EXCEPT ![k].pc = "rPush"]
  /\ Reply(r, <<"enq", p, sub>>, TRUE)
  /\ UNCHANGED <<edgeVars, drains, live, counters, streams, hashes, sets, chan, pubs, hnds, rrIndex, strms,
                 reapers, aged, emitted, handled, pushed, metrics, trimmed>>

EnqRPush(r, p, sub) ==
  /\ EnqStep(r, p, sub, "rPush")
  /\ LET k == <<r, p, sub>>
         e == enqs[k]
     IN /\ lists' = Put(lists, e.key, Append(Get(lists, e.key, <<>>), e.event))
        /\ pushed' = Put(pushed, e.key, Append(Get(pushed, e.key, <<>>),
                                               [event |-> e.event, queueLength |-> e.queueLength]))
        /\ enqs' = [Disturb(enqs, k) EXCEPT ![k].pc = "lLen2"]
  /\ Reply(r, <<"enq", p, sub>>, TRUE)
  /\ UNCHANGED <<edgeVars, drains, live, counters, streams, hashes, sets, chan, pubs, hnds, rrIndex, strms,
                 reapers, aged, emitted, handled, metrics, trimmed>>

EnqLLen2(r, p, sub) ==
  /\ EnqStep(r, p, sub, "lLen2")
  /\ LET k == <<r, p, sub>>
         e == enqs[k]
         newLength == Len(Get(lists, e.key, <<>>))
     IN enqs' = [enqs EXCEPT ![k].pc = IF newLength > maxSubscriberQueueSize THEN "lTrim" ELSE "expire",
                             ![k].newLength = newLength]
  /\ Reply(r, <<"enq", p, sub>>, TRUE)
  /\ UNCHANGED <<edgeVars, drains, storeVars, chan, pubs, hnds, rrIndex, strms, reapers, aged, emitted, handled, pushed,
                 metrics, trimmed>>

EnqLTrim(r, p, sub) ==
  /\ EnqStep(r, p, sub, "lTrim")
  /\ LET k == <<r, p, sub>>
         e == enqs[k]
         items == Get(lists, e.key, <<>>)
         kept == LTrim(items, e.newLength - maxSubscriberQueueSize)
     IN /\ lists' = IF kept = <<>> THEN Del(lists, e.key) ELSE Put(lists, e.key, kept)
        /\ trimmed' = Put(trimmed, e.key, Get(trimmed, e.key, <<>>)
                                            \o SliceTo(items, e.newLength - maxSubscriberQueueSize))
        /\ enqs' = [Disturb(enqs, k) EXCEPT ![k].pc = "expire"]
  /\ Reply(r, <<"enq", p, sub>>, TRUE)
  /\ UNCHANGED <<edgeVars, drains, live, counters, streams, hashes, sets, chan, pubs, hnds, rrIndex, strms,
                 reapers, aged, emitted, handled, pushed, metrics>>

\* the last command of the enqueue (the time to live is not modelled); when
\* it was the last enqueue of its distribution to settle, the distributor
\* forwards the envelope to the bus of its replica
EnqExpire(r, p, sub) ==
  /\ EnqStep(r, p, sub, "expire")
  /\ LET h == hnds[<<r, p>>]
         pending == h.pending \ {sub}
     IN IF pending = {}
        THEN /\ hnds' = Del(hnds, <<r, p>>)
             /\ strms' = BusPublish(strms, r, channelForTopic(h.event.tenantId, h.topicId), <<h.event>>)
             /\ handled' = handled \cup {Handled(r, h, TRUE)}
        ELSE /\ hnds' = [hnds EXCEPT ![<<r, p>>].pending = pending]
             /\ UNCHANGED <<strms, handled>>
  /\ enqs' = Del(enqs, <<r, p, sub>>)
  /\ Reply(r, <<"enq", p, sub>>, FALSE)
  /\ UNCHANGED <<edgeVars, drains, storeVars, chan, pubs, rrIndex, reapers, aged, emitted, pushed,
                 metrics, trimmed>>


\* ------------------------------------- Subscription.topicEvents.subscribe
\* the envelopes readFromSeq rebuilds from the first max entries of a stream
ReadEntries(entries, tenantId, topicId, fromSeq) ==
  LET kept == SelectSeq(entries, LAMBDA data : data.seq >= fromSeq)
  IN [i \in 1..Len(kept) |->
        [id |-> kept[i].id, topicId |-> topicId, type |-> kept[i].type, seq |-> kept[i].seq,
         tenantId |-> tenantId, senderId |-> kept[i].userId]]

readFromSeq(tenantId, topicId, fromSeq, max) ==
  ReadEntries(SliceTo(Get(streams, streamKey(tenantId, topicId), <<>>), max), tenantId, topicId, fromSeq)

\* a subscribe of a principal of tenantId that passed validation and the
\* access check; it takes a fresh subscriber id and enters addSubscriber,
\* whose first command is hSet
Subscribe(r, tenantId, fromSeq) ==
  /\ r \in live
  /\ Len(strms) < MaxStreams
  /\ LET s == Len(strms) + 1
     IN /\ strms' = Append(strms, [state |-> "REGISTER", pc |-> "hSet", replica |-> r,
                                   tenantId |-> tenantId, topicId |-> TopicX,
                                   subscriberId |-> SubscriberId(s), fromSeq |-> fromSeq,
                                   channel |-> <<>>, backlog |-> <<>>, received |-> <<>>])
        /\ Issue(r, <<"sub", 0, SubscriberId(s)>>)
  /\ UNCHANGED <<edgeVars, drains, storeVars, chan, pubs, hnds, enqs, rrIndex, reapers, aged, emitted, handled, pushed,
                 metrics, trimmed>>

SubStep(s, pcNow) ==
  /\ s \in DOMAIN strms
  /\ strms[s].pc = pcNow
  /\ AtHead(strms[s].replica, <<"sub", 0, strms[s].subscriberId>>)

SubHSet(s) ==
  /\ SubStep(s, "hSet")
  /\ LET st == strms[s]
     IN hashes' = Put(hashes, subscriberMetaKey(st.tenantId, st.subscriberId),
                      [id |-> st.subscriberId, topicId |-> st.topicId, isActive |-> TRUE])
  /\ strms' = [strms EXCEPT ![s].pc = "sAdd"]
  /\ Reply(strms[s].replica, <<"sub", 0, strms[s].subscriberId>>, TRUE)
  /\ UNCHANGED <<edgeVars, drains, live, counters, streams, sets, lists, chan, pubs, hnds, enqs, rrIndex,
                 reapers, aged, emitted, handled, pushed, metrics, trimmed>>

SubSAdd(s) ==
  /\ SubStep(s, "sAdd")
  /\ LET st == strms[s]
         key == subscribersKey(st.tenantId, st.topicId)
     IN sets' = Put(sets, key, Get(sets, key, {}) \cup {st.subscriberId})
  /\ strms' = [strms EXCEPT ![s].pc = "expire"]
  /\ Reply(strms[s].replica, <<"sub", 0, strms[s].subscriberId>>, TRUE)
  /\ UNCHANGED <<edgeVars, drains, live, counters, streams, hashes, lists, chan, pubs, hnds, enqs, rrIndex,
                 reapers, aged, emitted, handled, pushed, metrics, trimmed>>

\* the iterator of the stream's channel is created: the stream is in TAIL
Tailing(st) ==
  [st EXCEPT !.state = "TAIL", !.pc = "done", !.channel = channelForTopic(st.tenantId, st.topicId)]

\* the last command of addSubscriber (the time to live is not modelled);
\* subscribe goes on to the backlog read when a fromSeq was given and
\* durability is enabled, else it returns the iterator
SubExpire(s) ==
  /\ SubStep(s, "expire")
  /\ LET st == strms[s]
         replay == st.fromSeq > 0 /\ durabilityEnabled
     IN /\ strms' = [strms EXCEPT ![s] = IF replay THEN [st EXCEPT !.state = "REPLAY", !.pc = "xRange"]
                                         ELSE Tailing(st)]
        /\ Reply(st.replica, <<"sub", 0, st.subscriberId>>, replay)
  /\ UNCHANGED <<edgeVars, drains, storeVars, chan, pubs, hnds, enqs, rrIndex, reapers, aged, emitted, handled, pushed,
                 metrics, trimmed>>

\* reply of xRange: every backlog envelope is published on the bus channel
\* of the {tenant, topic}, and then the iterator is created
SubXRange(s) ==
  /\ SubStep(s, "xRange")
  /\ LET st == strms[s]
         backlog == readFromSeq(st.tenantId, st.topicId, st.fromSeq, StreamMaxLen)
         afterReplay == BusPublish(strms, st.replica, channelForTopic(st.tenantId, st.topicId), backlog)
     IN strms' = [afterReplay EXCEPT ![s] = Tailing([st EXCEPT !.backlog = backlog])]
  /\ Reply(strms[s].replica, <<"sub", 0, strms[s].subscriberId>>, FALSE)
  /\ UNCHANGED <<edgeVars, drains, storeVars, chan, pubs, hnds, enqs, rrIndex, reapers, aged, emitted, handled, pushed,
                 metrics, trimmed>>

\* the store rejects the xRange of the backlog read: readFromSeq throws, the
\* resolver's catch throws 'Failed to subscribe to topic' and no iterator is
\* returned
SubXRangeFails(s) ==
  /\ SubStep(s, "xRange")
  /\ strms' = [strms EXCEPT ![s].state = "ERROR", ![s].pc = "done"]
  /\ Reply(strms[s].replica, <<"sub", 0, strms[s].subscriberId>>, FALSE)
  /\ UNCHANGED <<edgeVars, drains, storeVars, chan, pubs, hnds, enqs, rrIndex, reapers, aged, emitted,
                 handled, pushed, metrics, trimmed>>

\* the transport closes: the iterator is returned and leaves the bus
Close(s) ==
  /\ s \in DOMAIN strms
  /\ strms[s].state = "TAIL"
  /\ strms' = [strms EXCEPT ![s].state = "CLOSED"]
  /\ UNCHANGED <<edgeVars, drains, storeVars, chan, cmdq, pubs, hnds, enqs, rrIndex, reapers, aged, emitted, handled, pushed,
                 metrics, trimmed>>


\* ------------------------------------------- cleanupInactiveSubscribers
RECURSIVE SeqOfSet(_)
SeqOfSet(S) ==
  IF S = {} THEN <<>>
  ELSE LET x == CHOOSE y \in S : TRUE IN <<x>> \o SeqOfSet(S \ {x})

\* KEYS {prefix}:topic:*:*:meta
IsTopicMetaKey(k) ==
  /\ Len(k) >= Len(keyPrefix) + 6
  /\ SubSeq(k, 1, Len(keyPrefix) + 3) = keyPrefix \o <<":", "topic", ":">>
  /\ SubSeq(k, Len(k) - 1, Len(k)) = <<":", "meta">>
  /\ IndexOf(SubSeq(k, Len(keyPrefix) + 4, Len(k) - 2), ":", 1) >= 1

RECURSIVE IndexOfMeta(_, _)
\* position of the first ":meta" in a token sequence, 0 when absent
IndexOfMeta(s, i) ==
  IF i + 1 > Len(s) THEN 0
  ELSE IF s[i] = ":" /\ s[i + 1] = "meta" THEN i
  ELSE IndexOfMeta(s, i + 1)

\* topicKey.replace(prefix:topic:, '').replace(':meta', '')
TopicKeyTail(k) ==
  LET t == SubSeq(k, Len(keyPrefix) + 4, Len(k))
      m == IndexOfMeta(t, 1)
  IN IF m = 0 THEN t ELSE SubSeq(t, 1, m - 1) \o SubSeq(t, m + 2, Len(t))

\* the {tenantId, topicId} pairs the reaper visits for the keys it listed
ReaperTopics(keys) ==
  LET tails == {TopicKeyTail(k) : k \in keys}
      ok == {t \in tails : LET i == IndexOf(t, ":", 1) IN i > 1 /\ i < Len(t)}
  IN SeqOfSet({[tenantId |-> SubSeq(t, 1, IndexOf(t, ":", 1) - 1),
                topicId |-> SubSeq(t, IndexOf(t, ":", 1) + 1, Len(t))] : t \in ok})

\* more than slowClientThresholdMs pass: every subscriber registered by now
\* has a lastSeen older than the threshold
Elapse ==
  /\ LET metas == {k \in DOMAIN hashes : ~IsTopicMetaKey(k)}
     IN /\ metas \ aged # {}
        /\ aged' = aged \cup metas
  /\ UNCHANGED <<edgeVars, drains, storeVars, chan, cmdq, pubs, hnds, enqs, rrIndex, strms, reapers, emitted, handled, pushed,
                 metrics, trimmed>>

\* the interval timer of replica r fires: now is read (kept as the set of
\* subscribers that are stale at this instant) and keys is issued
StartReaper(r) ==
  /\ r \in live
  /\ reapers[r].pc = "idle"
  /\ reapers[r].runs < MaxReaperRuns
  /\ reapers' = [reapers EXCEPT ![r] = [pc |-> "keys", runs |-> @.runs + 1, stale |-> aged,
                                        topics |-> <<>>, subs |-> <<>>]]
  /\ Issue(r, <<"reap", 0, "">>)
  /\ UNCHANGED <<edgeVars, drains, storeVars, chan, pubs, hnds, enqs, rrIndex, strms, aged, emitted, handled, pushed,
                 metrics, trimmed>>

\* the interval timer fires on, past the runs that are counted
RestartReaper(r) ==
  /\ r \in live
  /\ reapers[r].pc = "idle"
  /\ reapers[r].runs = MaxReaperRuns
  /\ reapers' = [reapers EXCEPT ![r] = [pc |-> "keys", runs |-> @.runs, stale |-> aged,
                                        topics |-> <<>>, subs |-> <<>>]]
  /\ Issue(r, <<"reap", 0, "">>)
  /\ UNCHANGED <<edgeVars, drains, storeVars, chan, pubs, hnds, enqs, rrIndex, strms, aged, emitted, handled, pushed,
                 metrics, trimmed>>

ReapStep(r, pcNow) ==
  /\ reapers[r].pc = pcNow
  /\ AtHead(r, <<"reap", 0, "">>)

\* the reaper's position after it is done with the current subscriber
NextSubscriber(rp) ==
  IF Len(rp.subs) > 1 THEN [rp EXCEPT !.pc = "exists", !.subs = Tail(@)]
  ELSE IF Len(rp.topics) > 1 THEN [rp EXCEPT !.pc = "sMembers", !.subs = <<>>, !.topics = Tail(@)]
  ELSE [pc |-> "idle", runs |-> rp.runs]

ReapMove(r, rp) ==
  /\ reapers' = [reapers EXCEPT ![r] = rp]
  /\ Reply(r, <<"reap", 0, "">>, rp.pc # "idle")

ReapKeys(r) ==
  /\ ReapStep(r, "keys")
  /\ LET topics == ReaperTopics({k \in DOMAIN hashes : IsTopicMetaKey(k)})
         rp == reapers[r]
     IN ReapMove(r, IF topics = <<>> THEN [pc |-> "idle", runs |-> rp.runs]
                    ELSE [rp EXCEPT !.pc = "sMembers", !.topics = topics])
  /\ UNCHANGED <<edgeVars, drains, storeVars, chan, pubs, hnds, enqs, rrIndex, strms, aged, emitted, handled, pushed,
                 metrics, trimmed>>

ReapSMembers(r) ==
  /\ ReapStep(r, "sMembers")
  /\ LET rp == reapers[r]
         t == Head(rp.topics)
         subscriberIds == SMembers(subscribersKey(t.tenantId, t.topicId))
     IN ReapMove(r, IF subscriberIds = <<>> THEN NextSubscriber([rp EXCEPT !.subs = <<>>])
                    ELSE [rp EXCEPT !.pc = "exists", !.subs = subscriberIds])
  /\ UNCHANGED <<edgeVars, drains, storeVars, chan, pubs, hnds, enqs, rrIndex, strms, aged, emitted, handled, pushed,
                 metrics, trimmed>>

\* getSubscriber: exists, then hGetAll
ReapExists(r) ==
  /\ ReapStep(r, "exists")
  /\ LET rp == reapers[r]
         key == subscriberMetaKey(Head(rp.topics).tenantId, Head(rp.subs))
     IN ReapMove(r, IF key \in DOMAIN hashes THEN [rp EXCEPT !.pc = "hGetAll"] ELSE NextSubscriber(rp))
  /\ UNCHANGED <<edgeVars, drains, storeVars, chan, pubs, hnds, enqs, rrIndex, strms, aged, emitted, handled, pushed,
                 metrics, trimmed>>

\* a missing hash reads as isActive false and lastSeen 0
ReapHGetAll(r) ==
  /\ ReapStep(r, "hGetAll")
  /\ LET rp == reapers[r]
         key == subscriberMetaKey(Head(rp.topics).tenantId, Head(rp.subs))
         isActive == key \in DOMAIN hashes /\ hashes[key].isActive
         tooOld == key \notin DOMAIN hashes \/ key \in rp.stale
     IN ReapMove(r, IF ~isActive \/ tooOld THEN [rp EXCEPT !.pc = "sRem"] ELSE NextSubscriber(rp))
  /\ UNCHANGED <<edgeVars, drains, storeVars, chan, pubs, hnds, enqs, rrIndex, strms, aged, emitted, handled, pushed,
                 metrics, trimmed>>

\* removeSubscriber: sRem, and when it removed the member, del queue, del meta
ReapSRem(r) ==
  /\ ReapStep(r, "sRem")
  /\ LET rp == reapers[r]
         t == Head(rp.topics)
         key == subscribersKey(t.tenantId, t.topicId)
         members == Get(sets, key, {})
         removed == Head(rp.subs) \in members
         rest == members \ {Head(rp.subs)}
     IN /\ sets' = IF rest = {} THEN Del(sets, key) ELSE Put(sets, key, rest)
        /\ ReapMove(r, IF removed THEN [rp EXCEPT !.pc = "delQueue"] ELSE NextSubscriber(rp))
  /\ UNCHANGED <<edgeVars, drains, live, counters, streams, hashes, lists, chan, pubs, hnds, enqs, rrIndex, strms,
                 aged, emitted, handled, pushed, metrics, trimmed>>

ReapDelQueue(r) ==
  /\ ReapStep(r, "delQueue")
  /\ LET rp == reapers[r]
         t == Head(rp.topics)
     IN /\ lists' = Del(lists, queueKey(t.tenantId, t.topicId, Head(rp.subs)))
        /\ enqs' = DisturbKey(enqs, queueKey(t.tenantId, t.topicId, Head(rp.subs)), <<>>)
        /\ ReapMove(r, [rp EXCEPT !.pc = "delMeta"])
  /\ UNCHANGED <<edgeVars, drains, live, counters, streams, hashes, sets, chan, pubs, hnds, rrIndex, strms,
                 aged, emitted, handled, pushed, metrics, trimmed>>

ReapDelMeta(r) ==
  /\ ReapStep(r, "delMeta")
  /\ LET rp == reapers[r]
         key == subscriberMetaKey(Head(rp.topics).tenantId, Head(rp.subs))
     IN /\ hashes' = Del(hashes, key)
        /\ aged' = aged \ {key}
        /\ ReapMove(r, NextSubscriber(rp))
  /\ UNCHANGED <<edgeVars, drains, live, counters, streams, sets, lists, chan, pubs, hnds, enqs, rrIndex, strms,
                 emitted, handled, pushed, metrics, trimmed>>

\* the store rejects the outstanding command of addEvent: addEvent throws,
\* EventDistributor.publishEvent rethrows and the resolver's catch answers
\* success = false
PubFails(p) ==
  /\ p \in DOMAIN pubs
  /\ pubs[p].pc \in {"incr", "xAdd", "hSet", "publish", "xTrim"}
  /\ AtHead(pubs[p].replica, <<"pub", p, "">>)
  /\ Reply(pubs[p].replica, <<"pub", p, "">>, FALSE)
  /\ pubs' = [pubs EXCEPT ![p].pc = "failed"]
  /\ UNCHANGED <<edgeVars, drains, storeVars, chan, hnds, enqs, rrIndex, strms, reapers, aged, emitted,
                 handled, pushed, metrics, trimmed>>

\* the store rejects the outstanding command of an addEventToSubscriberQueue
\* call: the call throws, the catch of the subscriber's distribution promise
\* logs and enters markSubscriberInactive, whose command is hSet
EnqFails(r, p, sub) ==
  /\ <<r, p, sub>> \in DOMAIN enqs
  /\ enqs[<<r, p, sub>>].pc \in {"lLen", "lRange", "del", "rPushFiltered", "rPush", "lLen2",
                                 "lTrim", "expire"}
  /\ AtHead(r, <<"enq", p, sub>>)
  /\ enqs' = [enqs EXCEPT ![<<r, p, sub>>].pc = "hSetInactive"]
  /\ Reply(r, <<"enq", p, sub>>, TRUE)
  /\ UNCHANGED <<edgeVars, drains, storeVars, chan, pubs, hnds, rrIndex, strms, reapers, aged, emitted,
                 handled, pushed, metrics, trimmed>>

\* HSET meta isActive 'false': the field is written whether or not the hash
\* exists
InactiveMeta(meta, key) ==
  IF key \in DOMAIN meta THEN Put(meta, key, [meta[key] EXCEPT !.isActive = FALSE])
  ELSE Put(meta, key, [isActive |-> FALSE])

\* reply of the hSet of markSubscriberInactive (ok: the store carried it
\* out; otherwise the promise rejects): the subscriber's promise settles,
\* and when it was the last of its distribution the distributor forwards
\* the envelope to the bus of its replica
EnqMarkInactive(r, p, sub, ok) ==
  /\ EnqStep(r, p, sub, "hSetInactive")
  /\ LET h == hnds[<<r, p>>]
         pending == h.pending \ {sub}
     IN /\ hashes' = IF ok THEN InactiveMeta(hashes, subscriberMetaKey(h.tenantId, sub)) ELSE hashes
        /\ IF pending = {}
           THEN /\ hnds' = Del(hnds, <<r, p>>)
                /\ strms' = BusPublish(strms, r, channelForTopic(h.event.tenantId, h.topicId), <<h.event>>)
                /\ handled' = handled \cup {Handled(r, h, TRUE)}
           ELSE /\ hnds' = [hnds EXCEPT ![<<r, p>>].pending = pending]
                /\ UNCHANGED <<strms, handled>>
  /\ enqs' = Del(enqs, <<r, p, sub>>)
  /\ Reply(r, <<"enq", p, sub>>, FALSE)
  /\ UNCHANGED <<edgeVars, drains, live, counters, streams, sets, lists, chan, pubs, rrIndex, reapers, aged,
                 emitted, pushed, metrics, trimmed>>

EnqueueFails ==
  \E k \in DOMAIN enqs :
    \/ EnqFails(k[1], k[2], k[3])
    \/ \E ok \in BOOLEAN : EnqMarkInactive(k[1], k[2], k[3], ok)

\* ------------------------------------------------- getSubscriberEvents
\* a consumer on replica r calls getSubscriberEvents for the subscriber of
\* stream s; its first command is lRange
getSubscriberEvents(r, s) ==
  /\ r \in live
  /\ s \in DOMAIN strms
  /\ Len(drains) < MaxDrains
  /\ LET st == strms[s]
         d == Len(drains) + 1
     IN /\ drains' = Append(drains, [pc |-> "lRange", replica |-> r,
                                     key |-> queueKey(st.tenantId, st.topicId, st.subscriberId),
                                     meta |-> subscriberMetaKey(st.tenantId, st.subscriberId),
                                     events |-> <<>>])
        /\ Issue(r, <<"drain", d, "">>)
  /\ UNCHANGED <<edgeVars, storeVars, chan, pubs, hnds, enqs, rrIndex, strms, reapers, aged,
                 emitted, handled, pushed, metrics, trimmed>>

DrainStep(d, pcNow) ==
  /\ d \in DOMAIN drains
  /\ drains[d].pc = pcNow
  /\ AtHead(drains[d].replica, <<"drain", d, "">>)

\* reply of lRange 0 -1: the envelopes that will be returned
DrainLRange(d) ==
  /\ DrainStep(d, "lRange")
  /\ drains' = [drains EXCEPT ![d].pc = "del", ![d].events = Get(lists, drains[d].key, <<>>)]
  /\ Reply(drains[d].replica, <<"drain", d, "">>, TRUE)
  /\ UNCHANGED <<edgeVars, storeVars, chan, pubs, hnds, enqs, rrIndex, strms, reapers, aged,
                 emitted, handled, pushed, metrics, trimmed>>

\* reply of del: the queue is cleared, whatever it holds by now
DrainDel(d) ==
  /\ DrainStep(d, "del")
  /\ lists' = Del(lists, drains[d].key)
  /\ enqs' = DisturbKey(enqs, drains[d].key, <<>>)
  /\ drains' = [drains EXCEPT ![d].pc = "hSet"]
  /\ Reply(drains[d].replica, <<"drain", d, "">>, TRUE)
  /\ UNCHANGED <<edgeVars, live, counters, streams, hashes, sets, chan, pubs, hnds, rrIndex,
                 strms, reapers, aged, emitted, handled, pushed, metrics, trimmed>>

\* HSET meta lastSeen now: the field is written whether or not the hash
\* exists; a hash without the isActive field reads as not active
SeenMeta(meta, key) ==
  IF key \in DOMAIN meta THEN meta ELSE Put(meta, key, [isActive |-> FALSE])

\* reply of hSet lastSeen: the subscriber is fresh again, and the call
\* returns the envelopes it read
DrainHSet(d) ==
  /\ DrainStep(d, "hSet")
  /\ hashes' = SeenMeta(hashes, drains[d].meta)
  /\ aged' = aged \ {drains[d].meta}
  /\ drains' = [drains EXCEPT ![d].pc = "done"]
  /\ Reply(drains[d].replica, <<"drain", d, "">>, FALSE)
  /\ UNCHANGED <<edgeVars, live, counters, streams, sets, lists, chan, pubs, hnds, enqs, rrIndex,
                 strms, reapers, emitted, handled, pushed, metrics, trimmed>>

DrainOn(rs) ==
  \/ \E r \in rs, s \in DOMAIN strms : getSubscriberEvents(r, s)
  \/ \E d \in DOMAIN drains : DrainLRange(d) \/ DrainDel(d) \/ DrainHSet(d)

\* ------------------------------------------------------------------ Next
PublishBy(rs, principals, types) ==
  \/ \E r \in rs, principal \in principals, type \in types : StartPublish(r, principal, type)
  \/ \E p \in DOMAIN pubs : PubIncr(p) \/ PubXAdd(p) \/ PubHSet(p) \/ PubPublish(p) \/ PubXTrim(p)

Distribute ==
  \/ \E r \in Replicas : Receive(r)
  \/ \E k \in DOMAIN hnds : HandleSMembers(k[1], k[2])

Enqueue ==
  \E k \in DOMAIN enqs :
    \/ EnqLLen(k[1], k[2], k[3])
    \/ EnqLRange(k[1], k[2], k[3])
    \/ EnqDel(k[1], k[2], k[3])
    \/ EnqRPushFiltered(k[1], k[2], k[3])
    \/ EnqRPush(k[1], k[2], k[3])
    \/ EnqLLen2(k[1], k[2], k[3])
    \/ EnqLTrim(k[1], k[2], k[3])
    \/ EnqExpire(k[1], k[2], k[3])

StreamsOn(rs, tenants, fromSeqs) ==
  \/ \E r \in rs, tenantId \in tenants, fromSeq \in fromSeqs : Subscribe(r, tenantId, fromSeq)
  \/ \E s \in DOMAIN strms : SubHSet(s) \/ SubSAdd(s) \/ SubExpire(s) \/ SubXRange(s) \/ Close(s)

ReapOn(rs) ==
  \/ Elapse
  \/ \E r \in rs :
       \/ StartReaper(r)
       \/ ReapKeys(r) \/ ReapSMembers(r) \/ ReapExists(r) \/ ReapHGetAll(r)
       \/ ReapSRem(r) \/ ReapDelQueue(r) \/ ReapDelMeta(r)

\* ------------------------------------------------------------ RateLimiter
userRateLimitKey(userId, action) ==
  <<"rate_limit", ":", "user", ":", userId, ":", action>>
topicRateLimitKey(tenantId, topicId) ==
  keyPrefix \o <<":", "rl", ":">> \o tenantId \o <<":">> \o topicId

Max(a, b) == IF a >= b THEN a ELSE b

\* redis.call('TIME')[1]: the store's clock, in whole seconds
StoreTime == now \div 1000

\* a sorted set is a set of [member, score] with one entry per member
ZRemRangeByScore(z, min, max) == {e \in z : ~(min <= e.score /\ e.score <= max)}
ZAdd(z, score, member) ==
  {e \in z : e.member # member} \cup {[member |-> member, score |-> score]}
OldestScore(z) == CHOOSE sc \in {e.score : e \in z} : \A e \in z : sc <= e.score

\* the script's ZRANGE key 0 0 of an empty set yields nil, and the addition
\* to nil raises: the eval is rejected
ScriptRaises(z, limit, window) ==
  LET left == ZRemRangeByScore(z, 0, StoreTime - window)
  IN Cardinality(left) >= limit /\ left = {}

\* the Lua script, evaluated by the store as one step.  EXPIRE key window
\* removes the key only once every entry is older than the window, which the
\* next evaluation's ZREMRANGEBYSCORE does as well, so it is not a separate
\* part of the state
rateLimitScript(z, limit, window, current) ==
  LET current_time == StoreTime
      window_start == current_time - window
      left == ZRemRangeByScore(z, 0, window_start)
      request_count == Cardinality(left)
  IN IF request_count >= limit
     THEN [zset |-> left,
           result |-> [allowed |-> FALSE, remaining |-> 0,
                       resetTime |-> OldestScore(left) + window, limit |-> limit]]
     ELSE [zset |-> ZAdd(left, current_time, current),
           result |-> [allowed |-> TRUE, remaining |-> limit - request_count - 1,
                       resetTime |-> current_time + window, limit |-> limit]]

cleanupFallbackLimits(limits) ==
  [k \in {k \in DOMAIN limits : ~(limits[k].resetTime < now - FallbackCleanupAgeMs)}
     |-> limits[k]]

FallbackLimit_full(limit) == limit
\* Math.floor(limit * 0.1)
FallbackLimit(limit) == limit \div 10

fallbackRateLimit(limits, key, limit, windowMs) ==
  LET windowStart == now - windowMs
      entry == Get(limits, key, [requests |-> <<>>, resetTime |-> now + windowMs])
      kept == SelectSeq(entry.requests, LAMBDA timestamp : timestamp > windowStart)
      fallbackLimit == FallbackLimit(limit)
      isAllowed == Len(kept) < fallbackLimit
      requests == IF isAllowed THEN Append(kept, now) ELSE kept
      resetTime == IF Len(requests) > 0 THEN Max(entry.resetTime, now + windowMs)
                   ELSE entry.resetTime
  IN [limits |-> cleanupFallbackLimits(
                   Put(limits, key, [requests |-> requests, resetTime |-> resetTime])),
      result |-> [allowed |-> isAllowed,
                  remaining |-> Max(0, fallbackLimit - Len(requests)),
                  resetTime |-> resetTime, limit |-> fallbackLimit]]

Logged(key, mode, windowMs, result) ==
  [key |-> key, at |-> now, mode |-> mode, windowMs |-> windowMs,
   allowed |-> result.allowed, remaining |-> result.remaining,
   resetTime |-> result.resetTime, limit |-> result.limit]

\* checkRateLimit on the limiter state st = [zsets, limits, log]; up is
\* whether the store answers the eval
RateLimited(st, key, limit, windowMs, up) ==
  LET current == now
      window == windowMs \div 1000
      z == Get(st.zsets, key, {})
  IN IF up /\ ~ScriptRaises(z, limit, window)
     THEN LET out == rateLimitScript(z, limit, window, current)
          IN [zsets |-> Put(st.zsets, key, out.zset), limits |-> st.limits,
              log |-> Append(st.log, Logged(key, "store", windowMs, out.result)),
              result |-> out.result]
     ELSE LET out == fallbackRateLimit(st.limits, key, limit, windowMs)
          IN [zsets |-> st.zsets, limits |-> out.limits,
              log |-> Append(st.log, Logged(key, "fallback", windowMs, out.result)),
              result |-> out.result]
LimiterState == [zsets |-> zsets, limits |-> fallbackLimits, log |-> rlLog]

\* one checkRateLimit call
checkRateLimit(key, limit, windowMs, up) ==
  /\ Len(rlLog) < MaxRequests
  /\ LET out == RateLimited(LimiterState, key, limit, windowMs, up)
     IN /\ zsets' = out.zsets
        /\ fallbackLimits' = out.limits
        /\ rlLog' = out.log
  /\ UNCHANGED <<notLimiter, now>>

\* time passes on the process's clock
Tick ==
  /\ now + TickMs <= EpochMs + MaxElapsedMs
  /\ now' = now + TickMs
  /\ UNCHANGED <<notLimiter, zsets, fallbackLimits, rlLog>>

\* ----------------------------------------------------------- FirebaseAuth
NodeEnvs == {"production", "development", "test"}
\* credentials: "valid", "placeholder" (unset or the sample values) or
\* "rejected" (initializeApp throws on them)
Configs ==
  [nodeEnv : NodeEnvs, firebaseAuthDisabled : BOOLEAN,
   credentials : {"valid", "placeholder", "rejected"}]

ProductionGuard_off(isDisabled, nodeEnv) == FALSE
ProductionGuard(isDisabled, nodeEnv) == isDisabled /\ nodeEnv = "production"

\* new FirebaseAuth(): the state of the singleton after the constructor
FirebaseAuth(cfg) ==
  IF ProductionGuard(cfg.firebaseAuthDisabled, cfg.nodeEnv)
  THEN [state |-> "threw", isDisabled |-> TRUE, auth |-> FALSE]
  ELSE IF cfg.firebaseAuthDisabled
  THEN [state |-> "ready", isDisabled |-> TRUE, auth |-> FALSE]
  ELSE IF cfg.credentials = "placeholder"
  THEN [state |-> "ready", isDisabled |-> TRUE, auth |-> FALSE]
  ELSE IF cfg.credentials = "rejected"
  THEN [state |-> "ready", isDisabled |-> TRUE, auth |-> FALSE]
  ELSE [state |-> "ready", isDisabled |-> FALSE, auth |-> TRUE]

\* the module is loaded: export const firebaseAuth = new FirebaseAuth()
LoadAuth ==
  /\ fbAuth.state = "unloaded"
  /\ fbAuth' = FirebaseAuth(config)
  /\ UNCHANGED <<notAuth, config, aclCache, topicDocs, authLog>>

Tokens == {"token-u1", "forged"}
NoPrincipal == [ok |-> FALSE, userId |-> <<>>, tenantId |-> <<>>]
DevPrincipal ==
  [ok |-> TRUE, userId |-> <<"dev-user", "-", config.nodeEnv, "-", now % 1000000>>,
   tenantId |-> IF config.nodeEnv = "test" THEN <<"test-tenant">> ELSE <<"default">>]
\* auth.verifyIdToken: the decoded token, or NoPrincipal when it throws
verifyIdToken(token) ==
  IF token = "token-u1" THEN [ok |-> TRUE, userId |-> <<"u1">>, tenantId |-> <<"t1">>]
  ELSE NoPrincipal

verifyToken(token) ==
  /\ fbAuth.state = "ready"
  /\ Len(authLog) < MaxAuthCalls
  /\ LET result == IF fbAuth.isDisabled THEN DevPrincipal
                   ELSE IF ~fbAuth.auth THEN NoPrincipal
                   ELSE verifyIdToken(token)
     IN authLog' = Append(authLog, [op |-> "verifyToken", token |-> token, result |-> result])
  /\ UNCHANGED <<notAuth, config, fbAuth, aclCache, topicDocs>>

aclKey(topicId, userId) == keyPrefix \o <<":", "acl", ":">> \o topicId \o <<":", userId>>

\* TopicAccessControl.checkTopicAccess; fault is "store" when the cache read
\* throws, "source" when the read of the topic document throws, "cacheWrite"
\* when the setEx of the decision throws
topicAccessControl(userId, topicId, fault) ==
  LET key == aclKey(topicId, userId)
      cached == Get(aclCache, key, "null")
      same == [cache |-> aclCache, docs |-> topicDocs]
  IN IF fault = "store" THEN same @@ [result |-> TRUE, consulted |-> FALSE, failed |-> TRUE]
     ELSE IF cached # "null"
     THEN same @@ [result |-> (cached = "1"), consulted |-> FALSE, failed |-> FALSE]
     ELSE IF fault = "source"
     THEN same @@ [result |-> TRUE, consulted |-> TRUE, failed |-> TRUE]
     ELSE IF fault = "cacheWrite"
     THEN [cache |-> aclCache,
           docs |-> IF topicId \in DOMAIN topicDocs THEN topicDocs
                    ELSE Put(topicDocs, topicId, [isPublic |-> TRUE, allowedUsers |-> {}]),
           result |-> TRUE, consulted |-> TRUE, failed |-> TRUE]
     ELSE IF topicId \notin DOMAIN topicDocs
     THEN [cache |-> Put(aclCache, key, "1"),
           docs |-> Put(topicDocs, topicId, [isPublic |-> TRUE, allowedUsers |-> {}]),
           result |-> TRUE, consulted |-> TRUE, failed |-> FALSE]
     ELSE IF topicDocs[topicId].isPublic \/ userId \in topicDocs[topicId].allowedUsers
     THEN [cache |-> Put(aclCache, key, "1"), docs |-> topicDocs,
           result |-> TRUE, consulted |-> TRUE, failed |-> FALSE]
     ELSE [cache |-> Put(aclCache, key, "0"), docs |-> topicDocs,
           result |-> FALSE, consulted |-> TRUE, failed |-> FALSE]

\* FirebaseAuth.checkTopicAccess: the decision with the cache, the source's
\* documents and the call history after it
TopicAccess(userId, topicId, fault) ==
  LET out == IF fbAuth.isDisabled
             THEN [cache |-> aclCache, docs |-> topicDocs,
                   result |-> TRUE, consulted |-> FALSE, failed |-> FALSE]
             ELSE topicAccessControl(userId, topicId, fault)
  IN out @@ [log |-> Append(authLog, [op |-> "checkTopicAccess", userId |-> userId,
                                      topicId |-> topicId, bypassed |-> fbAuth.isDisabled,
                                      consulted |-> out.consulted, failed |-> out.failed,
                                      result |-> out.result])]

checkTopicAccess(userId, topicId, fault) ==
  /\ fbAuth.state = "ready"
  /\ Len(authLog) < MaxAuthCalls
  /\ LET out == TopicAccess(userId, topicId, fault)
     IN /\ aclCache' = out.cache
        /\ topicDocs' = out.docs
        /\ authLog' = out.log
  /\ UNCHANGED <<notAuth, config, fbAuth>>

\* a cached decision expires, cacheTtlSeconds after it was written
AclExpire ==
  /\ \E key \in DOMAIN aclCache : aclCache' = Del(aclCache, key)
  /\ UNCHANGED <<notAuth, config, fbAuth, topicDocs, authLog>>

\* ------------------------------------------- publishEvent: the checks
\* inputSanitizer.checkInputRateLimit on the map recent
checkInputRateLimit_countsDenied(recent, identifier, windowMs, maxRequests) ==
  LET requests == SelectSeq(Get(recent, identifier, <<>>), LAMBDA t : t > now - windowMs)
  IN [recent |-> Put(recent, identifier, Append(requests, now)),
      allowed |-> Len(requests) < maxRequests]
checkInputRateLimit(recent, identifier, windowMs, maxRequests) ==
  LET windowStart == now - windowMs
      requests == Get(recent, identifier, <<>>)
      validRequests == SelectSeq(requests, LAMBDA timestamp : timestamp > windowStart)
  IN IF Len(validRequests) >= maxRequests
     THEN [recent |-> Put(recent, identifier, requests), allowed |-> FALSE]
     ELSE [recent |-> Put(recent, identifier, Append(validRequests, now)), allowed |-> TRUE]

InputLogged(identifier, windowMs, allowed) ==
  Append(inputLog, [identifier |-> identifier, at |-> now, windowMs |-> windowMs,
                    allowed |-> allowed])

\* one checkInputRateLimit call
inputRateLimit(identifier, windowMs, maxRequests) ==
  /\ Len(inputLog) < MaxInputCalls
  /\ LET out == checkInputRateLimit(recentInputs, identifier, windowMs, maxRequests)
     IN /\ recentInputs' = out.recent
        /\ inputLog' = InputLogged(identifier, windowMs, out.allowed)
  /\ UNCHANGED <<planeVars, limiterVars, authVars, breakerVars, keyVars, admLog>>

\* the state a call leaves behind when it stops at a check
Stopped(failed, evaluated, consumed, recent, st, acl) ==
  [failed |-> failed, evaluated |-> evaluated, consumed |-> consumed, recent |-> recent,
   zsets |-> st.zsets, limits |-> st.limits, rlLog |-> st.log,
   cache |-> acl.cache, docs |-> acl.docs, authLog |-> acl.log]
AclState == [cache |-> aclCache, docs |-> topicDocs, log |-> authLog]

\* the checks of publishEvent in the order of the resolver, up to the first
\* that fails.  user.present: context.user is set; user.contextOk:
\* validateGraphQLContext passes; input.wellFormed: both input validations
\* pass
PublishChecks(user, input, up, fault) ==
  IF ~user.present
  THEN Stopped("principal", <<"principal">>, {}, recentInputs, LimiterState, AclState)
  ELSE IF ~user.contextOk
  THEN Stopped("context", <<"principal", "context">>, {}, recentInputs, LimiterState, AclState)
  ELSE
    LET ir == checkInputRateLimit(recentInputs, <<"input-", user.userId>>, WindowMs,
                                  InputMaxRequests)
    IN IF ~ir.allowed
       THEN Stopped("inputRate", <<"principal", "context", "inputRate">>, {},
                    ir.recent, LimiterState, AclState)
       ELSE IF ~input.wellFormed
       THEN Stopped("validate", <<"principal", "context", "inputRate", "validate">>,
                    {"input"}, ir.recent, LimiterState, AclState)
       ELSE
         LET ur == RateLimited(LimiterState, userRateLimitKey(user.userId, "publish"),
                               UserLimit, WindowMs, up)
         IN IF ~ur.result.allowed
            THEN Stopped("userRate",
                         <<"principal", "context", "inputRate", "validate", "userRate">>,
                         {"input"}, ir.recent, ur, AclState)
            ELSE
              LET tr == RateLimited(ur, topicRateLimitKey(user.tenantId, input.topicId),
                                    TopicLimit, WindowMs, up)
              IN IF ~tr.result.allowed
                 THEN Stopped("topicRate",
                              <<"principal", "context", "inputRate", "validate", "userRate",
                                "topicRate">>,
                              {"input", "user"}, ir.recent, tr, AclState)
                 ELSE
                   LET acl == TopicAccess(user.userId, input.topicId, fault)
                   IN Stopped(IF acl.result THEN "none" ELSE "acl",
                              <<"principal", "context", "inputRate", "validate", "userRate",
                                "topicRate", "acl">>,
                              {"input", "user", "topic"}, ir.recent, tr, acl)

\* what a publishEvent call whose checks ended as out leaves in the
\* limiter, the ACL cache and the histories
Checked(user, input, out) ==
  /\ recentInputs' = out.recent
  /\ zsets' = out.zsets
  /\ fallbackLimits' = out.limits
  /\ rlLog' = out.rlLog
  /\ aclCache' = out.cache
  /\ topicDocs' = out.docs
  /\ authLog' = out.authLog
  /\ admLog' = Append(admLog, [user |-> user, input |-> input, at |-> now,
                               failed |-> out.failed, evaluated |-> out.evaluated,
                               consumed |-> out.consumed,
                               recentBefore |-> recentInputs,
                               recentAfter |-> out.recent])
  /\ inputLog' = IF "inputRate" \in Range(out.evaluated)
                 THEN InputLogged(<<"input-", user.userId>>, WindowMs,
                                  out.failed # "inputRate")
                 ELSE inputLog

\* a publishEvent call runs its checks
publishEvent(user, input, up, fault) ==
  /\ fbAuth.state = "ready"
  /\ Len(admLog) < MaxAdmissions
  /\ Checked(user, input, PublishChecks(user, input, up, fault))
  /\ UNCHANGED <<planeVars, breakerVars, keyVars, now, config, fbAuth>>

\* -------------------------------------------------------- CircuitBreaker
\* isOpen at time t: an OPEN breaker whose recovery timeout has passed turns
\* HALF_OPEN; the answer is whether it is OPEN after that
isOpen(cb, opts, t) ==
  LET after == IF cb.state = "OPEN" /\ t - cb.lastFailureTime >= opts.recoveryTimeoutMs
               THEN [cb EXCEPT !.state = "HALF_OPEN", !.failures = 0]
               ELSE cb
  IN [breaker |-> after, open |-> after.state = "OPEN"]

onSuccess(cb) == [cb EXCEPT !.failures = 0, !.state = "CLOSED"]

onFailure(cb, opts, t) ==
  LET failures == cb.failures + 1
  IN [failures |-> failures, lastFailureTime |-> t,
      state |-> IF cb.state = "HALF_OPEN" \/ failures >= opts.failureThreshold
                THEN "OPEN" ELSE cb.state]

\* the history of breaker b after a withCircuitBreaker call at time t that
\* found the breaker in state before.state and left it in after.state
CallLogged(h, before, after, ev, t) ==
  [h EXCEPT !.probes = IF after.state # "HALF_OPEN" THEN 0
                       ELSE (IF before.state = "HALF_OPEN" THEN @ ELSE 0)
                            + (IF ev = "invoke" THEN 1 ELSE 0),
            !.lastCall = [ev |-> ev, at |-> t,
                          sinceOpened |-> IF h.opened.at < 0 THEN -1 ELSE t - h.opened.at]]

\* the latest five failure times, the failure at t included
FailTimes(h, t) ==
  LET all == Append(h.failTimes, t)
  IN IF Len(all) > 5 THEN Tail(all) ELSE all
\* the failures of the history that are less than windowMs before t
Recent(times, t, windowMs) == Cardinality({i \in DOMAIN times : t - times[i] < windowMs})

\* the history of breaker b after one of its operations settled at time t
SettleLogged(h, before, after, ok, t) ==
  LET times == IF ok THEN h.failTimes ELSE FailTimes(h, t)
  IN [h EXCEPT !.failTimes = times,
               !.opened = IF after.state = "OPEN" /\ before.state # "OPEN"
                          THEN [at |-> t, from |-> before.state,
                                recent |-> Recent(times, t, 60000)]
                          ELSE @,
               !.probes = IF after.state = "HALF_OPEN" THEN @ ELSE 0]

\* ErrorHandler.withCircuitBreaker up to its await: an open breaker throws,
\* any other starts the operation
withCircuitBreaker(b) ==
  /\ LET chk == isOpen(breakers[b], BreakerOf(b), now)
     IN /\ breakers' = [breakers EXCEPT ![b] = chk.breaker]
        /\ IF chk.open
           THEN /\ cbLog' = [cbLog EXCEPT ![b] =
                               CallLogged(@, breakers[b], chk.breaker, "reject", now)]
                /\ UNCHANGED cbCalls
           ELSE /\ cbCalls[b] < MaxCbInFlight
                /\ cbCalls' = [cbCalls EXCEPT ![b] = @ + 1]
                /\ cbLog' = [cbLog EXCEPT ![b] =
                               CallLogged(@, breakers[b], chk.breaker, "invoke", now)]
  /\ UNCHANGED <<planeVars, limiterVars, authVars, admitVars, keyVars>>

\* the awaited operation of a withCircuitBreaker call resolves or rejects
operationSettles(b, ok) ==
  /\ cbCalls[b] > 0
  /\ cbCalls' = [cbCalls EXCEPT ![b] = @ - 1]
  /\ LET after == IF ok THEN onSuccess(breakers[b])
                  ELSE onFailure(breakers[b], BreakerOf(b), now)
     IN /\ breakers' = [breakers EXCEPT ![b] = after]
        /\ cbLog' = [cbLog EXCEPT ![b] = SettleLogged(@, breakers[b], after, ok, now)]
  /\ UNCHANGED <<planeVars, limiterVars, authVars, admitVars, keyVars>>

\* time passes on the process's clock, in the breakers' scale
CbTick ==
  /\ now + CbTickMs <= EpochMs + CbMaxElapsedMs
  /\ now' = now + CbTickMs
  /\ UNCHANGED <<notLimiter, zsets, fallbackLimits, rlLog>>

\* ---------------------------------------- publish input: the type field
BASELINE_TYPES == {<<"op">>, <<"cursor">>, <<"presence">>, <<"metric">>, <<"status">>}
\* tokens that hold a character outside [a-zA-Z0-9_\-]
OtherTokens == {":", ".", " "}
\* schemas.publishEventInput.type: min(1) and the pattern /^[a-zA-Z0-9_\-]+$/
JoiType(type) == Len(type) >= 1 /\ \A i \in DOMAIN type : type[i] \notin OtherTokens
startsWith(s, prefix) == Len(s) >= Len(prefix) /\ SubSeq(s, 1, Len(prefix)) = prefix
\* envelope.validatePublishInput on the type; sanitizeString leaves a
\* string of the pattern's characters as it is
validatePublishInput(type) ==
  /\ type # <<>>
  /\ type \in BASELINE_TYPES \/ startsWith(type, <<"custom", ":">>)
\* the publish input of a type whose other fields pass every validation
InputOf(type) ==
  [topicId |-> TopicX, type |-> type, wellFormed |-> JoiType(type) /\ validatePublishInput(type)]

\* ------------------------------------- the routing pair of a request
\* schemas.tenantId: min(1) and the pattern /^[a-zA-Z0-9_\-]+$/
validateTenantId(tenantId) ==
  Len(tenantId) >= 1 /\ \A i \in DOMAIN tenantId : tenantId[i] \notin OtherTokens
\* schemas.topicId: min(1) and the pattern /^[a-zA-Z0-9_\-:\.]+$/
validateTopicId(topicId) ==
  Len(topicId) >= 1 /\ \A i \in DOMAIN topicId : topicId[i] # " "
\* validateGraphQLContext on the principal's tenantId: checked when present
validateGraphQLContext(tenantId) == tenantId = <<>> \/ validateTenantId(tenantId)
\* context.user.tenantId || 'default'
TenantOf(tenantId) == IF tenantId = <<>> THEN <<"default">> ELSE tenantId

\* the checks of the routing pair on each path: publishEvent validates the
\* context and the input's topicId, subscribe the topicId alone
Accepts(path, tenantId, topicId) ==
  IF path = "publish"
  THEN validateGraphQLContext(tenantId) /\ validateTopicId(topicId)
  ELSE validateTopicId(topicId)

\* the keys and channels a request of the pair works on
Routed(path, tenantId, topicId) ==
  [path |-> path, tenantId |-> tenantId, topicId |-> topicId,
   stream |-> streamKey(tenantId, topicId),
   seq |-> seqKey(tenantId, topicId),
   subscribers |-> subscribersKey(tenantId, topicId),
   pub |-> pubChannel(tenantId, topicId),
   bus |-> channelForTopic(tenantId, topicId),
   parsed |-> <<ParseTenant(pubChannel(tenantId, topicId)),
               ParseTopic(pubChannel(tenantId, topicId))>>]

\* a publishEvent or subscribe request of a principal of tenant tenantId
\* for topicId passes the path's checks and derives its keys
route(path, tenantId, topicId) ==
  /\ Cardinality(keyLog) < MaxPairs
  /\ Accepts(path, tenantId, topicId)
  /\ keyLog' = keyLog \cup {Routed(path, TenantOf(tenantId), topicId)}
  /\ UNCHANGED <<planeVars, limiterVars, authVars, admitVars, breakerVars>>

\* ------------------------------------------------ Mutation.publishEvent
\* a resolver that goes on to publish after every check but the first
Proceeds_authenticated(failed) == failed # "principal"
\* every failed check throws: the resolver reaches eventDistributor.publishEvent
\* when none failed
Proceeds(failed) == failed = "none"

\* Mutation.publishEvent on replica r: the checks and, when they pass, the
\* call of eventDistributor.publishEvent up to its first store command
publishMutation(r, user, input, up, fault) ==
  /\ r \in live
  /\ fbAuth.state = "ready"
  /\ Len(admLog) < MaxAdmissions
  /\ LET out == PublishChecks(user, input, up, fault)
         p == Len(pubs) + 1
         event == [id |-> p, topicId |-> input.topicId, type |-> input.type, seq |-> 0,
                   tenantId |-> TenantOf(user.tenantId), senderId |-> user.userId]
     IN /\ Checked(user, input, out)
        /\ IF Proceeds(out.failed)
           THEN /\ Len(pubs) < MaxPublishes
                /\ pubs' = Append(pubs, [pc |-> "incr", replica |-> r, event |-> event,
                                         tailing |-> {s \in DOMAIN strms : strms[s].state = "TAIL"}])
                /\ Issue(r, <<"pub", p, "">>)
           ELSE UNCHANGED <<pubs, cmdq>>
  /\ UNCHANGED <<drains, storeVars, chan, hnds, enqs, rrIndex, strms, reapers, aged, emitted, handled,
                 pushed, metrics, trimmed>>
  /\ UNCHANGED <<breakerVars, keyVars, now, config, fbAuth>>

\* --------------------------------------- Subscription.topicEvents.subscribe
\* a resolver that registers the subscriber whatever the check answered
hasAccess_any(result) == TRUE
\* if (!hasAccess) throw
hasAccess(result) == result

\* subscribe on replica r by an authenticated principal with a valid topic
\* id: the access check and, when it allows, addSubscriber up to its first
\* store command; when it denies, the resolver throws and the stream ends
\* in ERROR.  check is the place of the access check in the call history
subscribe(r, user, fromSeq, fault) ==
  /\ r \in live
  /\ fbAuth.state = "ready"
  /\ Len(strms) < MaxStreams
  /\ LET out == TopicAccess(user.userId, TopicX, fault)
         s == Len(strms) + 1
         st == [state |-> "REGISTER", pc |-> "hSet", replica |-> r,
                tenantId |-> TenantOf(user.tenantId), topicId |-> TopicX,
                subscriberId |-> SubscriberId(s), fromSeq |-> fromSeq,
                channel |-> <<>>, backlog |-> <<>>, received |-> <<>>,
                check |-> Len(out.log)]
     IN /\ aclCache' = out.cache
        /\ topicDocs' = out.docs
        /\ authLog' = out.log
        /\ IF hasAccess(out.result)
           THEN /\ strms' = Append(strms, st)
                /\ Issue(r, <<"sub", 0, SubscriberId(s)>>)
           ELSE /\ strms' = Append(strms, [st EXCEPT !.state = "ERROR", !.pc = "done"])
                /\ UNCHANGED cmdq
  /\ UNCHANGED <<drains, storeVars, chan, pubs, hnds, enqs, rrIndex, reapers, aged, emitted, handled,
                 pushed, metrics, trimmed>>
  /\ UNCHANGED <<limiterVars, admitVars, breakerVars, keyVars, config, fbAuth>>

U1 == [userId |-> "u1", tenantId |-> <<"t1">>]
U2 == [userId |-> "u2", tenantId |-> <<"t1">>]
U3 == [userId |-> "u3", tenantId |-> <<"t2">>]

\* Spec: one replica, principals of two tenants publishing and subscribing
\* (with a replay position) on the same topic id
InitOne == Init /\ live = {"R1"}
Next ==
  \/ PublishBy({"R1"}, {U1, U3}, {"op"})
  \/ Distribute
  \/ Enqueue
  \/ StreamsOn({"R1"}, Tenants, {1})
Spec == InitOne /\ [][Next]_vars

\* SpecReplay: one replica, one tenant, subscriptions with and without fromSeq
NextReplay ==
  \/ PublishBy({"R1"}, {U1}, {"op"})
  \/ Distribute
  \/ Enqueue
  \/ StreamsOn({"R1"}, {<<"t1">>}, 0..1)
SpecReplay == InitOne /\ [][NextReplay]_vars

\* SpecSeq: concurrent publishes on two replicas
InitTwo == Init /\ live = Replicas
NextSeq == PublishBy(Replicas, {U1, U3}, {"op"})
SpecSeq == InitTwo /\ [][NextSeq]_vars

\* SpecFan: a producing gateway process publishes, replica R2 serves the
\* subscriptions and runs its reaper
InitFan == Init /\ live = {"R2"}
NextFan ==
  \/ RemotePublish(U1, "op", MaxPublishes)
  \/ Distribute
  \/ Enqueue
  \/ StreamsOn({"R2"}, {<<"t1">>}, {0})
  \/ ReapOn({"R2"})
SpecFan == InitFan /\ [][NextFan]_vars

\* SpecQ: one subscriber of tenant t1 is registered on R1 and its consumer
\* is stalled; envelopes of two senders arrive from other gateway processes
Sub1 ==
  [state |-> "TAIL", pc |-> "done", replica |-> "R1", tenantId |-> <<"t1">>, topicId |-> TopicX,
   subscriberId |-> SubscriberId(1), fromSeq |-> 0,
   channel |-> channelForTopic(<<"t1">>, TopicX), backlog |-> <<>>, received |-> <<>>]
InitQ ==
  /\ EdgeInit
  /\ live = {"R1"}
  /\ counters = <<>>
  /\ streams = <<>>
  /\ hashes = Put(<<>>, subscriberMetaKey(<<"t1">>, SubscriberId(1)),
                  [id |-> SubscriberId(1), topicId |-> TopicX, isActive |-> TRUE])
  /\ sets = Put(<<>>, subscribersKey(<<"t1">>, TopicX), {SubscriberId(1)})
  /\ lists = <<>>
  /\ chan = [r \in Replicas |-> <<>>]
  /\ cmdq = [r \in Replicas |-> <<>>]
  /\ pubs = <<>>
  /\ hnds = <<>>
  /\ enqs = <<>>
  /\ rrIndex = [r \in Replicas |-> <<>>]
  /\ strms = <<Sub1>>
  /\ reapers = [r \in Replicas |-> [pc |-> "idle", runs |-> 0]]
  /\ aged = {}
  /\ emitted = <<>>
  /\ handled = {}
  /\ pushed = <<>>
  /\ metrics = [r \in Replicas |-> [published |-> 0, delivered |-> 0, dropped |-> 0]]
  /\ trimmed = <<>>
  /\ drains = <<>>
NextQ ==
  \/ \E principal \in {U1, U2}, type \in EventTypes : RemotePublish(principal, type, MaxRemotePublishes)
  \/ Distribute
  \/ Enqueue
SpecQ == InitQ /\ [][NextQ]_vars

\* SpecFallback: the store is disconnected, every eval fails
RlKeys == {userRateLimitKey("u1", "publish"), topicRateLimitKey(<<"t1">>, TopicX)}
InitIdle == Init /\ live = {}
NextFallback ==
  \/ \E key \in RlKeys : checkRateLimit(key, FallbackBaseLimit, WindowMs, FALSE)
  \/ Tick
SpecFallback == InitIdle /\ [][NextFallback]_vars

\* SpecStore: the store answers every eval
NextStore ==
  \/ \E key \in RlKeys : checkRateLimit(key, StoreLimit, WindowMs, TRUE)
  \/ Tick
SpecStore == InitIdle /\ [][NextStore]_vars

\* SpecAuth: the process starts under any configuration; tokens are verified
\* and topic access is checked while the ACL source and the store can fail
PrivateDocs == Put(<<>>, TopicX, [isPublic |-> FALSE, allowedUsers |-> {"u1"}])
InitAuth ==
  /\ PlaneInit /\ live = {}
  /\ LimiterInit
  /\ AdmitInit
  /\ BreakerInit
  /\ keyLog = {}
  /\ AuthInit(Configs, {<<>>, PrivateDocs})
NextAuth ==
  \/ LoadAuth
  \/ \E token \in Tokens : verifyToken(token)
  \/ \E userId \in {"u1", "u2"}, fault \in {"none", "store", "source"} :
       checkTopicAccess(userId, TopicX, fault)
  \/ AclExpire
SpecAuth == InitAuth /\ [][NextAuth]_vars

\* SpecCleanup: replica R2 serves subscriptions of two tenants on the topic
\* id; a producing gateway process publishes one event for tenant t1 and
\* none for tenant t2; streams close, time passes, and the reaper's timer
\* keeps firing.  Every command is answered and every timer fires.
NextCleanup ==
  \/ RemotePublish(U1, "op", 1)
  \/ Distribute
  \/ Enqueue
  \/ StreamsOn({"R2"}, Tenants, {0})
  \/ ReapOn({"R2"})
  \/ RestartReaper("R2")
FairCleanup ==
  /\ WF_vars(Distribute)
  /\ WF_vars(Enqueue)
  /\ WF_vars(\E s \in DOMAIN strms : SubHSet(s) \/ SubSAdd(s) \/ SubExpire(s) \/ SubXRange(s))
  /\ WF_vars(Elapse)
  /\ WF_vars(ReapOn({"R2"}) /\ aged' = aged)
  /\ WF_vars(RestartReaper("R2"))
SpecCleanup == InitFan /\ [][NextCleanup]_vars /\ FairCleanup

\* SpecAdmit: a production process with the store reachable; principals
\* with and without access to the topic publish well-formed and malformed
\* inputs
ProdConfig == [nodeEnv |-> "production", firebaseAuthDisabled |-> FALSE, credentials |-> "valid"]
Callers ==
  {[present |-> FALSE, contextOk |-> FALSE, userId |-> "", tenantId |-> <<>>],
   [present |-> TRUE, contextOk |-> FALSE, userId |-> "u1", tenantId |-> <<"t1">>],
   [present |-> TRUE, contextOk |-> TRUE, userId |-> "u1", tenantId |-> <<"t1">>],
   [present |-> TRUE, contextOk |-> TRUE, userId |-> "u2", tenantId |-> <<"t1">>]}
Inputs == [topicId : {TopicX}, type : {"op"}, wellFormed : BOOLEAN]
InitAdmit ==
  /\ PlaneInit /\ live = {}
  /\ LimiterInit
  /\ AdmitInit
  /\ BreakerInit
  /\ keyLog = {}
  /\ AuthInit({ProdConfig}, {PrivateDocs})
NextAdmit ==
  \/ LoadAuth
  \/ \E user \in Callers, input \in Inputs : publishEvent(user, input, TRUE, "none")
  \/ Tick
SpecAdmit == InitAdmit /\ [][NextAdmit]_vars

\* SpecTypes: principal u1 publishes inputs of baseline, custom and other
\* types
TypeSamples ==
  BASELINE_TYPES \cup
  {<<"custom", ":", "chat">>, <<"custom", ":">>, <<"custom">>, <<"chat">>,
   <<"customs", ":", "chat">>, <<"op", " ">>, <<>>}
NextTypes ==
  \/ LoadAuth
  \/ \E type \in TypeSamples :
       publishEvent([present |-> TRUE, contextOk |-> TRUE, userId |-> "u1", tenantId |-> <<"t1">>],
                    InputOf(type), TRUE, "none")
  \/ Tick
SpecTypes == InitAdmit /\ [][NextTypes]_vars

\* SpecInput: checkInputRateLimit is called for two identifiers while time
\* passes
Identifiers == {<<"input-", "u1">>, <<"input-", "u2">>}
NextInput ==
  \/ \E identifier \in Identifiers : inputRateLimit(identifier, WindowMs, InputMaxRequests)
  \/ Tick
SpecInput == InitIdle /\ [][NextInput]_vars

\* SpecMutation: the callers of SpecAdmit publish through replica R1, whose
\* rate limiter reaches the store or falls back
InitMutation ==
  /\ PlaneInit /\ live = {"R1"}
  /\ LimiterInit
  /\ AdmitInit
  /\ BreakerInit
  /\ keyLog = {}
  /\ AuthInit({ProdConfig}, {PrivateDocs})
NextMutation ==
  \/ LoadAuth
  \/ \E user \in Callers, input \in Inputs, up \in BOOLEAN :
       publishMutation("R1", user, input, up, "none")
  \/ \E p \in DOMAIN pubs : PubIncr(p) \/ PubXAdd(p) \/ PubHSet(p) \/ PubPublish(p) \/ PubXTrim(p)
  \/ Tick
SpecMutation == InitMutation /\ [][NextMutation]_vars

\* SpecSubscribe: principals with and without access to the private topic
\* subscribe on replica R1, with and without a replay position, while the
\* ACL source answers or fails and a producer publishes
NextSubscribe ==
  \/ LoadAuth
  \/ \E user \in {U1, U2}, fromSeq \in 0..1, fault \in {"none", "source"} :
       subscribe("R1", user, fromSeq, fault)
  \/ \E s \in DOMAIN strms : SubHSet(s) \/ SubSAdd(s) \/ SubExpire(s) \/ SubXRange(s) \/ Close(s)
  \/ RemotePublish(U1, "op", MaxPublishes)
SpecSubscribe == InitMutation /\ [][NextSubscribe]_vars

\* SpecReplayDown: subscriptions with a replay position on replica R1 while
\* a producer publishes and the store may reject the backlog read
NextReplayDown ==
  \/ RemotePublish(U1, "op", MaxPublishes)
  \/ Distribute
  \/ Enqueue
  \/ StreamsOn({"R1"}, {<<"t1">>}, {1})
  \/ \E s \in DOMAIN strms : SubXRangeFails(s)
SpecReplayDown == InitOne /\ [][NextReplayDown]_vars

\* SpecTail: the stream of {t1, doc:123} holds StreamMaxLen entries (the
\* topic has been published to for a while); U1 publishes on replica R1 and
\* subscriptions replay from the oldest and from the newest retained seq
FullStream ==
  [i \in 1..StreamMaxLen |-> [id |-> 0 - i, type |-> "op", seq |-> i, userId |-> "u1"]]
InitTail ==
  /\ EdgeInit
  /\ live = {"R1"}
  /\ counters = Put(<<>>, seqKey(<<"t1">>, TopicX), StreamMaxLen)
  /\ streams = Put(<<>>, streamKey(<<"t1">>, TopicX), FullStream)
  /\ hashes = Put(<<>>, topicMetaKey(<<"t1">>, TopicX), [lastEventId |-> StreamMaxLen])
  /\ sets = <<>>
  /\ lists = <<>>
  /\ chan = [r \in Replicas |-> <<>>]
  /\ cmdq = [r \in Replicas |-> <<>>]
  /\ pubs = <<>>
  /\ hnds = <<>>
  /\ enqs = <<>>
  /\ rrIndex = [r \in Replicas |-> <<>>]
  /\ strms = <<>>
  /\ reapers = [r \in Replicas |-> [pc |-> "idle", runs |-> 0]]
  /\ aged = {}
  /\ emitted = <<>>
  /\ handled = {}
  /\ pushed = <<>>
  /\ metrics = [r \in Replicas |-> [published |-> 0, delivered |-> 0, dropped |-> 0]]
  /\ trimmed = <<>>
  /\ drains = <<>>
NextTail ==
  \/ PublishBy({"R1"}, {U1}, {"op"})
  \/ StreamsOn({"R1"}, {<<"t1">>}, {1, StreamMaxLen})
SpecTail == InitTail /\ [][NextTail]_vars

\* SpecFail: replica R1 serves a subscriber in TAIL and publishes while
\* commands of the store may fail
NextFail ==
  \/ PublishBy({"R1"}, {U1}, {"op"})
  \/ \E p \in DOMAIN pubs : PubFails(p)
  \/ Distribute
  \/ Enqueue
SpecFail == InitQ /\ [][NextFail]_vars

\* SpecInactive: two subscribers of tenant t1 are registered on R1;
\* envelopes arrive from another gateway process while commands of the
\* store may fail under the enqueues
Sub2 ==
  [Sub1 EXCEPT !.subscriberId = SubscriberId(2)]
InitPair ==
  /\ EdgeInit
  /\ live = {"R1"}
  /\ counters = <<>>
  /\ streams = <<>>
  /\ hashes = [k \in {subscriberMetaKey(<<"t1">>, SubscriberId(n)) : n \in 1..2} |->
                 IF k = subscriberMetaKey(<<"t1">>, SubscriberId(1))
                 THEN [id |-> SubscriberId(1), topicId |-> TopicX, isActive |-> TRUE]
                 ELSE [id |-> SubscriberId(2), topicId |-> TopicX, isActive |-> TRUE]]
  /\ sets = Put(<<>>, subscribersKey(<<"t1">>, TopicX), {SubscriberId(1), SubscriberId(2)})
  /\ lists = <<>>
  /\ chan = [r \in Replicas |-> <<>>]
  /\ cmdq = [r \in Replicas |-> <<>>]
  /\ pubs = <<>>
  /\ hnds = <<>>
  /\ enqs = <<>>
  /\ rrIndex = [r \in Replicas |-> <<>>]
  /\ strms = <<Sub1, Sub2>>
  /\ reapers = [r \in Replicas |-> [pc |-> "idle", runs |-> 0]]
  /\ aged = {}
  /\ emitted = <<>>
  /\ handled = {}
  /\ pushed = <<>>
  /\ metrics = [r \in Replicas |-> [published |-> 0, delivered |-> 0, dropped |-> 0]]
  /\ trimmed = <<>>
  /\ drains = <<>>
NextInactive ==
  \/ RemotePublish(U1, "op", MaxPublishes)
  \/ Distribute
  \/ Enqueue
  \/ EnqueueFails
SpecInactive == InitPair /\ [][NextInactive]_vars

\* SpecBoth: both replicas run their distributor; one subscriber of tenant
\* t1 is registered, its stream is served by R1; envelopes arrive from
\* another gateway process
InitBoth ==
  /\ EdgeInit
  /\ live = Replicas
  /\ counters = <<>>
  /\ streams = <<>>
  /\ hashes = Put(<<>>, subscriberMetaKey(<<"t1">>, SubscriberId(1)),
                  [id |-> SubscriberId(1), topicId |-> TopicX, isActive |-> TRUE])
  /\ sets = Put(<<>>, subscribersKey(<<"t1">>, TopicX), {SubscriberId(1)})
  /\ lists = <<>>
  /\ chan = [r \in Replicas |-> <<>>]
  /\ cmdq = [r \in Replicas |-> <<>>]
  /\ pubs = <<>>
  /\ hnds = <<>>
  /\ enqs = <<>>
  /\ rrIndex = [r \in Replicas |-> <<>>]
  /\ strms = <<Sub1>>
  /\ reapers = [r \in Replicas |-> [pc |-> "idle", runs |-> 0]]
  /\ aged = {}
  /\ emitted = <<>>
  /\ handled = {}
  /\ pushed = <<>>
  /\ metrics = [r \in Replicas |-> [published |-> 0, delivered |-> 0, dropped |-> 0]]
  /\ trimmed = <<>>
  /\ drains = <<>>
NextBoth ==
  \/ RemotePublish(U1, "op", MaxPublishes)
  \/ Distribute
  \/ Enqueue
SpecBoth == InitBoth /\ [][NextBoth]_vars

\* SpecAclCache: access checks of two users while the store may drop the
\* connection between the cache read and the cache write
NextAclCache ==
  \/ LoadAuth
  \/ \E userId \in {"u1", "u2"}, fault \in {"none", "cacheWrite"} :
       checkTopicAccess(userId, TopicX, fault)
  \/ AclExpire
SpecAclCache == InitAuth /\ [][NextAclCache]_vars

\* SpecDrain: one subscriber of tenant t1 is registered on R1; envelopes
\* arrive from another gateway process while a consumer on R1 drains the
\* subscriber's queue
NextDrain ==
  \/ RemotePublish(U1, "op", MaxPublishes)
  \/ Distribute
  \/ Enqueue
  \/ DrainOn({"R1"})
SpecDrain == InitQ /\ [][NextDrain]_vars

\* SpecKeys: requests of principals of several tenants for several topics
TenantSamples == {<<>>, <<"a">>, <<"b">>, <<"a", ":", "b">>}
TopicSamples == {<<"c">>, <<"b", ":", "c">>, <<"a", ":", "c">>, <<"c", " ">>}
NextKeys ==
  \E path \in {"publish", "subscribe"}, tenantId \in TenantSamples, topicId \in TopicSamples :
    route(path, tenantId, topicId)
SpecKeys == InitIdle /\ [][NextKeys]_vars

\* SpecBreaker: calls through one of the two global circuit breakers (they
\* share no state), operations that succeed or fail, and time
NextBreaker ==
  \/ \E b \in Breakers :
       /\ \A c \in Breakers \ {b} : cbLog[c].lastCall.ev = "none"
       /\ withCircuitBreaker(b)
  \/ \E b \in Breakers, ok \in BOOLEAN : operationSettles(b, ok)
  \/ CbTick
SpecBreaker == InitIdle /\ [][NextBreaker]_vars

\* ============================================================ properties
\* the publishes of tenantId that have been assigned their seq
Assigned(tenantId) ==
  {p \in DOMAIN pubs : pubs[p].event.tenantId = tenantId /\ pubs[p].pc # "incr"}
IsAscending(seqs) == \A i, j \in DOMAIN seqs : i < j => seqs[i] <= seqs[j]

\* C1: under every interleaving of the store commands of concurrent
\* publishes to one {tenant, topic}, the seqs assigned so far are pairwise
\* distinct and are exactly k+1..k+N (k = 0, the counter being fresh), and
\* no publish is assigned seq 0.
Thm_C1 ==
  \A tenantId \in Tenants :
    LET P == Assigned(tenantId)
    IN /\ \A p \in P : pubs[p].event.seq # 0
       /\ \A p, q \in P : p # q => pubs[p].event.seq # pubs[q].event.seq
       /\ {pubs[p].event.seq : p \in P} = 1..Cardinality(P)
\* two publishes of one tenant, on different replicas, both between their
\* incr and the end of addEvent
Wit_C1 ==
  \E p, q \in DOMAIN pubs :
    /\ p # q
    /\ pubs[p].event.tenantId = pubs[q].event.tenantId
    /\ pubs[p].replica # pubs[q].replica
    /\ pubs[p].pc \notin {"incr", "done"}
    /\ pubs[q].pc \notin {"incr", "done"}

\* C4: under every interleaving of concurrent publishes to one
\* {tenant, topic}, the entries of the stream are in ascending seq order,
\* and so is what readFromSeq yields.
Cex_C4 ==
  \A tenantId \in Tenants :
    /\ IsAscending([i \in DOMAIN Get(streams, streamKey(tenantId, TopicX), <<>>) |->
                      Get(streams, streamKey(tenantId, TopicX), <<>>)[i].seq])
    /\ IsAscending([i \in DOMAIN readFromSeq(tenantId, TopicX, 1, StreamMaxLen) |->
                      readFromSeq(tenantId, TopicX, 1, StreamMaxLen)[i].seq])

\* C5: within a {tenant, topic}, the envelopes are emitted on the store
\* publish channel, and handed to every replica's distributor, in the order
\* of their seqs.
Cex_C5 ==
  /\ \A i, j \in DOMAIN emitted :
       (i < j /\ emitted[i].tenantId = emitted[j].tenantId) => emitted[i].seq < emitted[j].seq
  /\ \A r \in Replicas : \A i, j \in DOMAIN chan[r] :
       (i < j /\ chan[r][i].message.tenantId = chan[r][j].message.tenantId)
         => chan[r][i].message.seq < chan[r][j].message.seq
\* the tenant of the principal that published the envelope with this id
Origin(id) == pubs[id].event.tenantId
QueueOf(st) == Get(lists, queueKey(st.tenantId, st.topicId, st.subscriberId), <<>>)

\* C2: an envelope published by a principal of one tenant to topic X is
\* never delivered to a subscription stream of a principal of another
\* tenant on topic X, never enqueued into such a subscriber's queue, and
\* never returned to it by the backlog read.
Thm_C2 ==
  \A s \in DOMAIN strms :
    /\ \A i \in DOMAIN strms[s].received : Origin(strms[s].received[i].id) = strms[s].tenantId
    /\ \A i \in DOMAIN strms[s].backlog : Origin(strms[s].backlog[i].id) = strms[s].tenantId
    /\ \A i \in DOMAIN QueueOf(strms[s]) : Origin(QueueOf(strms[s])[i].id) = strms[s].tenantId
\* streams of two tenants on the same topic id; both were delivered an
\* envelope, one read a backlog and the other has an envelope in its queue
Wit_C2 ==
  \E s, t \in DOMAIN strms :
    /\ strms[s].tenantId # strms[t].tenantId
    /\ strms[s].topicId = strms[t].topicId
    /\ strms[s].received # <<>>
    /\ strms[t].received # <<>>
    /\ strms[s].backlog # <<>>
    /\ QueueOf(strms[t]) # <<>>
\* the seqs of a sequence of envelopes
Seqs(envelopes) == {envelopes[i].seq : i \in DOMAIN envelopes}
\* the position of the first envelope with this seq
FirstAt(envelopes, seq) ==
  CHOOSE i \in DOMAIN envelopes :
    envelopes[i].seq = seq /\ \A j \in 1..(i - 1) : envelopes[j].seq # seq

\* C3: a subscriber that subscribes with fromSeq is delivered, on its new
\* stream, every envelope of the durable tail with seq >= fromSeq that was
\* published before the subscribe: once the stream is in TAIL, every
\* envelope of its backlog read is among the envelopes it received.
Cex_C3 ==
  \A s \in DOMAIN strms :
    (strms[s].state = "TAIL" /\ strms[s].fromSeq > 0)
      => Seqs(strms[s].backlog) \subseteq Seqs(strms[s].received)

\* C6: a stream that replays from a fromSeq and then consumes the live
\* tail observes the first occurrences of the seqs in increasing order.
Cex_C6 ==
  \A s \in DOMAIN strms :
    strms[s].fromSeq > 0 =>
      \A a, b \in Seqs(strms[s].received) :
        a < b => FirstAt(strms[s].received, a) < FirstAt(strms[s].received, b)
\* replica r has received the envelope of publish p and its distributor
\* has returned from distributing it
Distributed(r, p) ==
  /\ pubs[p].pc \in {"xTrim", "done"}
  /\ \A i \in DOMAIN chan[r] : chan[r][i].message.id # p
  /\ <<r, p>> \notin DOMAIN hnds
\* the seq of the stream entry of publish p
EntrySeq(p) ==
  LET entries == Get(streams, streamKey(pubs[p].event.tenantId, pubs[p].event.topicId), <<>>)
  IN {entries[i].seq : i \in {j \in DOMAIN entries : entries[j].id = p}}

\* C7: an envelope published on the producing replica is delivered to each
\* stream that is in TAIL on replica R2 for the {tenant, topic}, with the
\* seq of its stream entry: once R2 has distributed the envelope, every
\* stream that was in TAIL when it was published, and still is, has
\* received it.
Cex_C7 ==
  \A p \in DOMAIN pubs : \A s \in pubs[p].tailing :
    (/\ Distributed("R2", p)
     /\ strms[s].replica = "R2"
     /\ strms[s].state = "TAIL"
     /\ strms[s].tenantId = pubs[p].event.tenantId
     /\ strms[s].topicId = pubs[p].event.topicId)
      => \E i \in DOMAIN strms[s].received :
           /\ strms[s].received[i].id = p
           /\ EntrySeq(p) = {strms[s].received[i].seq}
\* the queue of the subscriber of SpecQ, and what was appended to it
QueueKey1 == queueKey(<<"t1">>, TopicX, SubscriberId(1))
Queue1 == Get(lists, QueueKey1, <<>>)
Pushed1 == Get(pushed, QueueKey1, <<>>)
\* no enqueue to the queue is between its first reply and the end of its trim
Settled(key) == \A k \in DOMAIN enqs : enqs[k].key = key => enqs[k].pc \in {"lLen", "expire"}
\* every envelope published so far has been distributed
Drained == chan = [r \in Replicas |-> <<>>] /\ DOMAIN hnds = {} /\ DOMAIN enqs = {}
LastOf(items, n) == IF Len(items) > n THEN SubSeq(items, Len(items) - n + 1, Len(items)) ELSE items

\* C8 as stated: in every reachable state, the states between the store
\* commands of an enqueue included, the length of the subscriber's queue
\* does not exceed the cap.
Cex_C8 == Len(Queue1) <= maxSubscriberQueueSize
\* C8: whenever no enqueue to the queue is between the reply to its first
\* store command and the end of its trim, the length of the subscriber's
\* queue does not exceed the cap.
Thm_C8 == Settled(QueueKey1) => Len(Queue1) <= maxSubscriberQueueSize
\* more envelopes than the cap were appended, the trims are over and the
\* queue is full
Wit_C8 ==
  /\ Settled(QueueKey1)
  /\ Len(Pushed1) > maxSubscriberQueueSize
  /\ Len(Queue1) = maxSubscriberQueueSize

\* C9: after more than cap envelopes were delivered to one subscriber
\* whose consumer is stalled, the queue holds exactly cap envelopes: the
\* last cap that were delivered, in delivery order.
Cex_C9 ==
  (/\ Drained
   /\ Len(Pushed1) > maxSubscriberQueueSize
   /\ \A i \in DOMAIN Pushed1 : ~isCoalescable(Pushed1[i].event))
    => Queue1 = LastOf([i \in DOMAIN Pushed1 |-> Pushed1[i].event], maxSubscriberQueueSize)

\* the entries of items with the type and sender of event
SameKind(items, event) ==
  {i \in DOMAIN items : items[i].type = event.type /\ items[i].senderId = event.senderId}

Trimmed1 == Get(trimmed, QueueKey1, <<>>)

\* C11: an enqueue removes no queued envelope of a type outside
\* {cursor, presence} and none whose (type, senderId) differs from its own
\* envelope's, other than by the head trim on overflow, also when other
\* enqueues to the queue run concurrently: once the enqueues that started
\* have finished, every envelope that was appended is still queued, or was
\* removed by a trim, or is a cursor/presence envelope that was followed by
\* one of its own type and sender.
Cex_C11 ==
  Settled(QueueKey1) =>
    \A i \in DOMAIN Pushed1 :
      \/ Pushed1[i].event \in Range(Queue1)
      \/ Pushed1[i].event \in Range(Trimmed1)
      \/ /\ isCoalescable(Pushed1[i].event)
         /\ \E j \in (i + 1)..Len(Pushed1) :
              /\ Pushed1[j].event.type = Pushed1[i].event.type
              /\ Pushed1[j].event.senderId = Pushed1[i].event.senderId

\* the calls on key that were admitted at an instant of the windowMs
\* milliseconds that begin at instant a
AdmittedIn(key, a, windowMs) ==
  {i \in DOMAIN rlLog : /\ rlLog[i].key = key
                        /\ rlLog[i].allowed
                        /\ a <= rlLog[i].at
                        /\ rlLog[i].at < a + windowMs}
Instants == {rlLog[i].at : i \in DOMAIN rlLog}

\* C12: while every evaluation of the rate-limit script fails, the calls the
\* limiter admits for one key within any windowMs milliseconds number at
\* most floor(limit / 10), and a call that finds that many admitted within
\* the window before it is denied.
Thm_C12 ==
  /\ \A i \in DOMAIN rlLog : rlLog[i].mode = "fallback"
  /\ \A key \in RlKeys : \A a \in Instants :
       Cardinality(AdmittedIn(key, a, WindowMs)) <= FallbackBaseLimit \div 10
  /\ \A i \in DOMAIN rlLog :
       rlLog[i].allowed <=>
         Cardinality({j \in 1..(i - 1) : /\ rlLog[j].key = rlLog[i].key
                                         /\ rlLog[j].allowed
                                         /\ rlLog[j].at > rlLog[i].at - WindowMs})
           < FallbackBaseLimit \div 10
\* a key whose calls were admitted up to the fallback limit, then denied,
\* and admitted again once the window had passed
Wit_C12 ==
  \E i, j, k \in DOMAIN rlLog :
    /\ i < j /\ j < k
    /\ rlLog[i].key = rlLog[j].key /\ rlLog[j].key = rlLog[k].key
    /\ rlLog[i].allowed /\ ~rlLog[j].allowed /\ rlLog[k].allowed
    /\ rlLog[j].mode = "fallback"
    /\ Cardinality(AdmittedIn(rlLog[j].key, rlLog[i].at, WindowMs)) = FallbackBaseLimit \div 10

\* C13: while the store answers every evaluation of the rate-limit script,
\* the calls admitted for one key within any windowMs milliseconds never
\* number more than the limit, whatever timestamp each call carries.
Cex_C13 ==
  (\A i \in DOMAIN rlLog : rlLog[i].mode = "store") =>
    \A key \in RlKeys : \A a \in Instants :
      Cardinality(AdmittedIn(key, a, WindowMs)) <= StoreLimit

\* C14: the resetTime of every denied call is an instant after the call's
\* Date.now() and at most one window after it, in the milliseconds the
\* publish path subtracts Date.now() from.
Cex_C14 ==
  \A i \in DOMAIN rlLog :
    ~rlLog[i].allowed =>
      /\ rlLog[i].resetTime > rlLog[i].at
      /\ rlLog[i].resetTime <= rlLog[i].at + rlLog[i].windowMs

\* C15: when authentication is disabled by configuration and the environment
\* is production, loading the auth component throws: the process never has
\* a usable auth component.
Thm_C15 ==
  (config.firebaseAuthDisabled /\ config.nodeEnv = "production") =>
    /\ fbAuth.state \in {"unloaded", "threw"}
    /\ authLog = <<>>
Wit_C15 ==
  /\ config.firebaseAuthDisabled
  /\ config.nodeEnv = "production"
  /\ fbAuth.state = "threw"

\* C16: in production the auth component is never in disabled mode:
\* verifyToken returns no principal for a token that does not verify, and
\* checkTopicAccess never grants access by bypassing the ACL check.
Cex_C16 ==
  config.nodeEnv = "production" =>
    /\ fbAuth.state = "ready" => ~fbAuth.isDisabled
    /\ \A i \in DOMAIN authLog :
         /\ (authLog[i].op = "verifyToken" /\ authLog[i].token = "forged")
              => ~authLog[i].result.ok
         /\ authLog[i].op = "checkTopicAccess" => ~authLog[i].bypassed

\* C17: a checkTopicAccess call during which reading the ACL source (or its
\* cache) failed returns true outside production and false in production.
Cex_C17 ==
  \A i \in DOMAIN authLog :
    (authLog[i].op = "checkTopicAccess" /\ authLog[i].failed) =>
      (authLog[i].result <=> config.nodeEnv # "production")

\* the store holds nothing of the subscriber of stream s
Cleaned(s) ==
  LET st == strms[s]
  IN /\ st.subscriberId \notin Get(sets, subscribersKey(st.tenantId, st.topicId), {})
     /\ queueKey(st.tenantId, st.topicId, st.subscriberId) \notin DOMAIN lists
     /\ subscriberMetaKey(st.tenantId, st.subscriberId) \notin DOMAIN hashes

\* C18: whenever a registered subscription stream has ended, its subscriber
\* id is eventually removed from the topic's subscriber set and its queue
\* and metadata are deleted, also for a topic no event was published to.
Cex_C18 ==
  \A s \in 1..MaxStreams :
    (s \in DOMAIN strms /\ strms[s].state = "CLOSED") ~> (s \in DOMAIN strms /\ Cleaned(s))

\* the order the checks are specified in, and the quota each one consumes
CheckOrder == <<"principal", "validate", "inputRate", "userRate", "topicRate", "acl">>
PlaceOf(check) == CHOOSE i \in DOMAIN CheckOrder : CheckOrder[i] = check
QuotaOf(check) ==
  IF check = "inputRate" THEN {"input"} ELSE IF check = "userRate" THEN {"user"}
  ELSE IF check = "topicRate" THEN {"topic"} ELSE {}

\* C19: a publishEvent call that a check rejects has evaluated no check that
\* comes after the rejecting one in the order principal, structural
\* validation, input frequency, user rate, topic rate, ACL, and has consumed
\* no quota of such a check: a malformed input consumes no input-frequency
\* quota.
Cex_C19 ==
  \A i \in DOMAIN admLog :
    LET call == admLog[i]
    IN call.failed \in Range(CheckOrder) =>
         /\ \A j \in DOMAIN call.evaluated :
              call.evaluated[j] \in Range(CheckOrder) =>
                PlaceOf(call.evaluated[j]) <= PlaceOf(call.failed)
         /\ \A k \in DOMAIN CheckOrder :
              k >= PlaceOf(call.failed) => QuotaOf(CheckOrder[k]) \cap call.consumed = {}
         /\ call.failed \in {"principal", "validate"} => call.recentAfter = call.recentBefore

\* C20: the events.dropped counter of the replica that enqueues for a
\* subscriber has counted every envelope that overflow trimming removed from
\* the subscriber's queue.
Cex_C20 == metrics["R1"].dropped = Len(Trimmed1)

\* C21: a publish input whose other fields are valid passes the validation
\* of the publish path exactly when its type is a baseline type or begins
\* with custom:.
Cex_C21 ==
  \A i \in DOMAIN admLog :
    "validate" \in Range(admLog[i].evaluated) =>
      (admLog[i].failed # "validate" <=>
         \/ admLog[i].input.type \in BASELINE_TYPES
         \/ startsWith(admLog[i].input.type, <<"custom", ":">>))

\* the checkInputRateLimit calls of identifier that were admitted at an
\* instant of the windowMs milliseconds that begin at instant a
InputsAdmittedIn(identifier, a, windowMs) ==
  {i \in DOMAIN inputLog : /\ inputLog[i].identifier = identifier
                           /\ inputLog[i].allowed
                           /\ a <= inputLog[i].at
                           /\ inputLog[i].at < a + windowMs}

\* C22: for each identifier the admitted checkInputRateLimit calls within
\* any windowMs milliseconds number at most maxRequests, and a call is
\* admitted exactly when fewer than maxRequests admitted calls of the
\* identifier lie less than windowMs before it: denied calls do not count,
\* and calls are admitted again once earlier admitted calls are older than
\* the window.
Thm_C22 ==
  /\ \A identifier \in Identifiers : \A i \in DOMAIN inputLog :
       Cardinality(InputsAdmittedIn(identifier, inputLog[i].at, WindowMs)) <= InputMaxRequests
  /\ \A i \in DOMAIN inputLog :
       inputLog[i].allowed <=>
         Cardinality({j \in 1..(i - 1) : /\ inputLog[j].identifier = inputLog[i].identifier
                                         /\ inputLog[j].allowed
                                         /\ inputLog[j].at > inputLog[i].at - WindowMs})
           < InputMaxRequests
\* an identifier admitted up to the limit, denied twice, and admitted again
\* when the admitted calls, but not the denied ones, are older than the window
Wit_C22 ==
  \E i, j, k, l \in DOMAIN inputLog :
    /\ i < j /\ j < k /\ k < l
    /\ inputLog[i].identifier = inputLog[l].identifier
    /\ inputLog[j].identifier = inputLog[l].identifier
    /\ inputLog[k].identifier = inputLog[l].identifier
    /\ inputLog[i].allowed /\ ~inputLog[j].allowed /\ ~inputLog[k].allowed /\ inputLog[l].allowed
    /\ inputLog[j].at > inputLog[l].at - WindowMs
    /\ Cardinality(InputsAdmittedIn(inputLog[i].identifier, inputLog[i].at, WindowMs))
         = InputMaxRequests
\* C23: for the circuit breaker of each external dependency, 5 failures
\* within 60 s open the breaker, failures older than 60 s do not count toward
\* opening, and while the breaker is open (for 60 s) every call is rejected
\* without invoking the protected operation: a breaker that left CLOSED for
\* OPEN had 5 failures in the 60 s before, 5 failures within 60 s have opened
\* it, and no operation was invoked less than 60 s after an opening.
OpenedByFive(b) == cbLog[b].opened.from = "CLOSED" => cbLog[b].opened.recent >= 5
FiveOpen(b) ==
  LET times == cbLog[b].failTimes
  IN Len(times) = 5 /\ times[5] - times[1] < 60000 => cbLog[b].opened.at >= times[1]
RejectedWhileOpen(b) ==
  LET call == cbLog[b].lastCall
  IN call.ev = "invoke" /\ call.sinceOpened >= 0 => call.sinceOpened >= 60000
Cex_C23 == \A b \in Breakers : OpenedByFive(b) /\ FiveOpen(b) /\ RejectedWhileOpen(b)

\* C24: in the half-open state of a circuit breaker at most 3 calls are let
\* through to the protected operation, and further calls are rejected until
\* the breaker closes or re-opens.
Cex_C24 ==
  \A b \in Breakers : breakers[b].state = "HALF_OPEN" => cbLog[b].probes <= 3

\* C25: for every message a replica's distributor receives on the store
\* publish channel, the envelope is forwarded to the bus channel
\* TOPIC_EVENTS:{tenant}:{topic} of that replica, whatever the topic's
\* subscriber set holds (the empty set included): no distributor callback
\* has returned without publishing the envelope on the bus.
Cex_C25 == \A d \in handled : d.published

\* C26: the mapping from (tenantId, topicId) to store keys and channels is
\* injective: two distinct pairs accepted on the publish or subscribe path
\* never share a stream, sequence counter, subscriber set, pub channel or
\* bus channel, and the distributor's parse of a pub channel name recovers
\* the (tenantId, topicId) it was published under.
Cex_C26 ==
  /\ \A x, y \in keyLog :
       <<x.tenantId, x.topicId>> # <<y.tenantId, y.topicId>> =>
         /\ x.stream # y.stream
         /\ x.seq # y.seq
         /\ x.subscribers # y.subscribers
         /\ x.pub # y.pub
         /\ x.bus # y.bus
  /\ \A x \in keyLog : x.path = "publish" => x.parsed = <<x.tenantId, x.topicId>>

\* C27: append-before-publish: an envelope that was emitted on the store
\* publish channel of a {tenant, topic} has an entry with the same id and
\* seq in the stream of that {tenant, topic}, as long as the stream has not
\* reached the length at which it is trimmed.
InStream(e) ==
  LET entries == Get(streams, streamKey(e.tenantId, e.topicId), <<>>)
  IN \/ \E i \in DOMAIN entries : entries[i].id = e.id /\ entries[i].seq = e.seq
     \/ Len(entries) >= StreamMaxLen
Thm_C27 == \A i \in DOMAIN emitted : InStream(emitted[i])
\* both publishes were emitted, the second while the first had not yet
\* trimmed the stream
Wit_C27 ==
  /\ Len(emitted) = MaxPublishes
  /\ \E p \in DOMAIN pubs : pubs[p].pc = "xTrim" /\ pubs[p].event.id = emitted[1].id

\* C28: publishEvent reports success exactly when the envelope was durably
\* published: a call that returned success = true has its envelope in the
\* stream and emitted on the store channel, and a call that returned
\* success = false has no entry in the stream and its envelope reached no
\* subscriber (neither a stream nor a subscriber queue).
Appended(e) ==
  LET entries == Get(streams, streamKey(e.tenantId, e.topicId), <<>>)
  IN \E i \in DOMAIN entries : entries[i].id = e.id
Delivered(e) ==
  \/ \E s \in DOMAIN strms : \E i \in DOMAIN strms[s].received : strms[s].received[i].id = e.id
  \/ \E k \in DOMAIN lists : \E i \in DOMAIN lists[k] : lists[k][i].id = e.id
Cex_C28 ==
  \A p \in DOMAIN pubs :
    /\ pubs[p].pc = "done" =>
         /\ InStream(pubs[p].event)
         /\ \E i \in DOMAIN emitted : emitted[i].id = p
    /\ pubs[p].pc = "failed" => ~Appended(pubs[p].event) /\ ~Delivered(pubs[p].event)

\* C29: a publishEvent call rejected by any check leaves the topic's
\* sequence counter, stream, metadata, store publish channel and broadcast
\* bus unchanged, consumes no seq and shows no envelope to a subscriber: the
\* step of a rejected call changes no variable of the event plane, the
\* publishes in progress and the commands outstanding at the store included.
RejectedCall == Len(admLog') = Len(admLog) + 1 /\ admLog'[Len(admLog')].failed # "none"
Thm_C29 == [][RejectedCall => UNCHANGED planeVars]_vars
\* a call was rejected after an admitted call had published its envelope,
\* while another publish could still have been started
Wit_C29 ==
  /\ \E i, j \in DOMAIN admLog : i < j /\ admLog[i].failed = "none" /\ admLog[j].failed # "none"
  /\ \E p \in DOMAIN pubs : pubs[p].pc = "done"
  /\ Len(pubs) < MaxPublishes

\* C30: a subscription reaches REGISTER, REPLAY or TAIL only after the ACL
\* check allowed it; when the check denies, no subscriber metadata and no
\* membership in the subscriber set is created, no backlog is read, no
\* command of the subscription is outstanding, and the stream ends in ERROR.
NothingOf(st) ==
  /\ subscriberMetaKey(st.tenantId, st.subscriberId) \notin DOMAIN hashes
  /\ st.subscriberId \notin Get(sets, subscribersKey(st.tenantId, st.topicId), {})
  /\ st.backlog = <<>> /\ st.received = <<>> /\ st.channel = <<>>
  /\ \A i \in DOMAIN cmdq[st.replica] : cmdq[st.replica][i] # <<"sub", 0, st.subscriberId>>
Thm_C30 ==
  \A s \in DOMAIN strms :
    /\ strms[s].state \in {"REGISTER", "REPLAY", "TAIL", "CLOSED"} => authLog[strms[s].check].result
    /\ ~authLog[strms[s].check].result => strms[s].state = "ERROR" /\ NothingOf(strms[s])
\* a subscription of u2 was denied and ended in ERROR while one of u1, with
\* a replay position, read a backlog and is in TAIL
Wit_C30 ==
  \E s, t \in DOMAIN strms :
    /\ strms[s].state = "ERROR" /\ ~authLog[strms[s].check].result
    /\ strms[t].state = "TAIL" /\ strms[t].backlog # <<>>

\* C31: if the store is unavailable while a subscription performs its
\* backlog replay, the subscription is not failed: it downgrades to no replay
\* and continues into the live tail.  No subscription that asked for a
\* replay ends in ERROR.
Cex_C31 == \A s \in DOMAIN strms : strms[s].fromSeq > 0 => strms[s].state # "ERROR"

\* C32: readFromSeq returns exactly the entries retained in the stream at
\* the time of the read whose seq >= fromSeq, none missing, the most recently
\* appended included: the backlog a subscription reads holds the seq of every
\* such entry of the stream it read.
Retained(st) ==
  LET entries == Get(streams, streamKey(st.tenantId, st.topicId), <<>>)
  IN {entries[i].seq : i \in {j \in DOMAIN entries : entries[j].seq >= st.fromSeq}}
Cex_C32 ==
  [][\A s \in DOMAIN strms :
       (strms[s].pc = "xRange" /\ strms'[s].pc = "done" /\ strms'[s].state = "TAIL")
         => Seqs(strms'[s].backlog) = Retained(strms[s])]_vars

\* C33: for one handled message every member of the subscriber set that was
\* read gets exactly one enqueue attempt, and a failure of one subscriber's
\* enqueue touches that subscriber alone: the step that reads the set starts
\* one addEventToSubscriberQueue call, with one command in flight, for each
\* member and for nobody else; the step in which a call fails changes no key
\* and no other call; the step that marks the subscriber inactive writes the
\* meta hash of that subscriber only, leaves every other call as it was, and
\* ends the distribution only when no other call of it is outstanding.
OthersIntact(k) ==
  \A j \in DOMAIN enqs \ {k} : j \in DOMAIN enqs' /\ enqs'[j] = enqs[j]
OneAttemptEach(k) ==
  LET ids == Range(SMembers(subscribersKey(hnds[k].tenantId, hnds[k].topicId)))
      started == {x \in DOMAIN enqs' \ DOMAIN enqs : x[1] = k[1] /\ x[2] = k[2]}
  IN /\ {x[3] : x \in started} = ids
     /\ \A sub \in ids :
          Cardinality({i \in DOMAIN cmdq'[k[1]] : cmdq'[k[1]][i] = <<"enq", k[2], sub>>}) = 1
     /\ OthersIntact(k)
FailureIsLocal(k) ==
  /\ (enqs[k].pc # "hSetInactive" /\ k \in DOMAIN enqs' /\ enqs'[k].pc = "hSetInactive")
       => OthersIntact(k) /\ UNCHANGED storeVars /\ UNCHANGED hnds
  /\ (enqs[k].pc = "hSetInactive" /\ k \notin DOMAIN enqs')
       => /\ OthersIntact(k)
          /\ UNCHANGED <<sets, lists, streams, counters>>
          /\ \A key \in DOMAIN hashes' \cup DOMAIN hashes :
               key # subscriberMetaKey(hnds[<<k[1], k[2]>>].tenantId, k[3])
                 => key \in DOMAIN hashes /\ key \in DOMAIN hashes' /\ hashes'[key] = hashes[key]
          /\ (\E j \in DOMAIN enqs \ {k} : j[1] = k[1] /\ j[2] = k[2])
               => <<k[1], k[2]>> \in DOMAIN hnds'
Thm_C33 ==
  [][/\ \A k \in DOMAIN hnds :
          (hnds[k].pc = "sMembers" /\ k \in DOMAIN hnds' /\ hnds'[k].pc = "settle")
            => OneAttemptEach(k)
     /\ \A k \in DOMAIN enqs : FailureIsLocal(k)]_vars
\* a distribution ended in which the enqueue of sub1 failed before its push
\* and sub1 was marked inactive, while the envelope was pushed to the queue
\* of sub2, which is still active
Wit_C33 ==
  \E d \in handled :
    /\ d.published
    /\ ~hashes[subscriberMetaKey(d.tenantId, SubscriberId(1))].isActive
    /\ hashes[subscriberMetaKey(d.tenantId, SubscriberId(2))].isActive
    /\ \A i \in DOMAIN Get(pushed, queueKey(d.tenantId, d.topicId, SubscriberId(1)), <<>>) :
         pushed[queueKey(d.tenantId, d.topicId, SubscriberId(1))][i].event.id # d.id
    /\ \E i \in DOMAIN Get(pushed, queueKey(d.tenantId, d.topicId, SubscriberId(2)), <<>>) :
         pushed[queueKey(d.tenantId, d.topicId, SubscriberId(2))][i].event.id = d.id

\* C34: each published envelope is enqueued at most once into any
\* subscriber's queue, however many replicas run: no queue was pushed the
\* same envelope twice.
Cex_C34 ==
  \A key \in DOMAIN pushed :
    \A i, j \in DOMAIN pushed[key] :
      pushed[key][i].event.id = pushed[key][j].event.id => i = j

\* C35: on a cache miss checkTopicAccess returns the ACL source's decision
\* and caches it, allow and deny alike: every call that consulted the source
\* answers what the topic document says for the user and leaves that answer
\* in the cache.
SourceDecision(docs, userId, topicId) ==
  topicId \notin DOMAIN docs \/ docs[topicId].isPublic \/ userId \in docs[topicId].allowedUsers
Cex_C35 ==
  [][Len(authLog') > Len(authLog) =>
       LET call == authLog'[Len(authLog')]
       IN (call.op = "checkTopicAccess" /\ ~call.bypassed /\ call.consulted)
            => /\ call.result = SourceDecision(topicDocs, call.userId, call.topicId)
               /\ Get(aclCache', aclKey(call.topicId, call.userId), "null")
                    = (IF call.result THEN "1" ELSE "0")]_vars

\* C36: a replay is private to the subscription that asked for it: the step
\* in which a subscription reads and emits its backlog delivers nothing to
\* any other stream.
Cex_C36 ==
  [][\A s \in DOMAIN strms :
       (strms[s].pc = "xRange" /\ strms'[s].pc = "done")
         => \A t \in DOMAIN strms \ {s} : strms'[t].received = strms[t].received]_vars

\* C37: a subscriber whose stream is connected and in TAIL is never reaped:
\* the subscriber of every stream in TAIL is a member of the subscriber set
\* of its {tenant, topic} and has its meta hash.
Cex_C37 ==
  \A s \in DOMAIN strms :
    strms[s].state = "TAIL"
      => /\ strms[s].subscriberId \in Get(sets, subscribersKey(strms[s].tenantId, strms[s].topicId), {})
         /\ subscriberMetaKey(strms[s].tenantId, strms[s].subscriberId) \in DOMAIN hashes

\* C38: once removeSubscriber has completed for a subscriber, no queue key
\* and no meta key of that subscriber exists at any later time.  The
\* removal of a registered subscriber has completed when it is out of the
\* subscriber set and no reaper is between the sRem and the last del for it.
Removing(r, subscriberId) ==
  /\ reapers[r].pc \in {"delQueue", "delMeta"}
  /\ Head(reapers[r].subs) = subscriberId
RemovalDone(st) ==
  /\ st.pc \in {"expire", "xRange", "done"}
  /\ st.subscriberId \notin Get(sets, subscribersKey(st.tenantId, st.topicId), {})
  /\ \A r \in Replicas : ~Removing(r, st.subscriberId)
Cex_C38 ==
  \A s \in DOMAIN strms :
    RemovalDone(strms[s])
      => /\ queueKey(strms[s].tenantId, strms[s].topicId, strms[s].subscriberId) \notin DOMAIN lists
         /\ subscriberMetaKey(strms[s].tenantId, strms[s].subscriberId) \notin DOMAIN hashes

\* C39: the lastEventId of a topic's metadata never decreases, and whenever
\* no publish is in progress it equals the largest seq assigned for the
\* topic.
LastEventId(meta, tenantId) == Get(meta, topicMetaKey(tenantId, TopicX), [lastEventId |-> 0]).lastEventId
Cex_C39 ==
  [][\A tenantId \in Tenants :
       /\ LastEventId(hashes', tenantId) >= LastEventId(hashes, tenantId)
       /\ (\A p \in DOMAIN pubs' : pubs'[p].pc = "done")
            => LastEventId(hashes', tenantId) = Get(counters', seqKey(tenantId, TopicX), 0)]_vars

\* C40: draining a subscriber's queue while envelopes are enqueued loses
\* nothing: every envelope that was appended to a queue is still in the
\* queue, or was read by a getSubscriberEvents call, or was removed by the
\* overflow trim.
IdsOf(envelopes) == {envelopes[i].id : i \in DOMAIN envelopes}
DrainedIds(key) ==
  UNION {IdsOf(drains[d].events) : d \in {x \in DOMAIN drains : drains[x].key = key}}
Cex_C40 ==
  \A key \in DOMAIN pushed :
    \A i \in DOMAIN pushed[key] :
      pushed[key][i].event.id \in IdsOf(Get(lists, key, <<>>)) \cup DrainedIds(key)
                                    \cup IdsOf(Get(trimmed, key, <<>>))

====
